---------------------------- MODULE Spec2Model ----------------------------
(***************************************************************************)
(* A model of the Redis-like server: the RESP codec (resp.go), the command *)
(* handlers over the two keyspace maps (handler.go), the append-only file  *)
(* (aof.go) and the startup replay and serving loop of main (main.go).     *)
(*                                                                         *)
(* Go strings and byte slices are sequences of byte values (naturals);     *)
(* Go maps are functions whose DOMAIN is the set of keys present.          *)
(***************************************************************************)
EXTENDS Integers, Sequences, FiniteSets, TLC

(***************************************************************************)
(* Bounds of the model.                                                    *)
(***************************************************************************)
\* most records the clients of one model run get appended to the log
MaxLog == 2

(***************************************************************************)
(* Bytes: the RESP type markers and the characters the code names.         *)
(***************************************************************************)
STRING_ == 43
ERROR == 45
INTEGER == 58
BULK == 36
ARRAY == 42
CR == 13
LF == 10
Plus == 43
Minus == 45
Digit0 == 48
LowerA == 97
LowerZ == 122
CaseGap == 32
\* size of the buffer bufio.NewReader allocates
BufSize == 4096

Min(a, b) == IF a < b THEN a ELSE b

Range(s) == {s[i] : i \in 1..Len(s)}

(***************************************************************************)
(* String literals of the source, as bytes.                               *)
(***************************************************************************)
StrOK == <<79, 75>>
StrPONG == <<80, 79, 78, 71>>
NameSET == <<83, 69, 84>>
NameGET == <<71, 69, 84>>
NameHSET == <<72, 83, 69, 84>>
NameHGET == <<72, 71, 69, 84>>
NameHGETALL == <<72, 71, 69, 84, 65, 76, 76>>
NameDEL == <<68, 69, 76>>
NamePING == <<80, 73, 78, 71>>
\* "ERR wrong number of arguments for 'set' command"
ErrSet ==
  <<69, 82, 82, 32, 119, 114, 111, 110, 103, 32, 110, 117, 109, 98, 101,
   114, 32, 111, 102, 32, 97, 114, 103, 117, 109, 101, 110, 116, 115, 32,
   102, 111, 114, 32, 39, 115, 101, 116, 39, 32, 99, 111, 109, 109, 97, 110,
   100>>
\* "ERR wrong number of arguments for 'get' command"
ErrGet ==
  <<69, 82, 82, 32, 119, 114, 111, 110, 103, 32, 110, 117, 109, 98, 101,
   114, 32, 111, 102, 32, 97, 114, 103, 117, 109, 101, 110, 116, 115, 32,
   102, 111, 114, 32, 39, 103, 101, 116, 39, 32, 99, 111, 109, 109, 97, 110,
   100>>
\* "ERR wrong number of arguments for 'hset' command"
ErrHset ==
  <<69, 82, 82, 32, 119, 114, 111, 110, 103, 32, 110, 117, 109, 98, 101,
   114, 32, 111, 102, 32, 97, 114, 103, 117, 109, 101, 110, 116, 115, 32,
   102, 111, 114, 32, 39, 104, 115, 101, 116, 39, 32, 99, 111, 109, 109, 97,
   110, 100>>
\* "ERR wrong number of arguments for 'hget' command"
ErrHget ==
  <<69, 82, 82, 32, 119, 114, 111, 110, 103, 32, 110, 117, 109, 98, 101,
   114, 32, 111, 102, 32, 97, 114, 103, 117, 109, 101, 110, 116, 115, 32,
   102, 111, 114, 32, 39, 104, 103, 101, 116, 39, 32, 99, 111, 109, 109, 97,
   110, 100>>
\* "ERR wrong number of arguments for 'hgetall' command"
ErrHgetall ==
  <<69, 82, 82, 32, 119, 114, 111, 110, 103, 32, 110, 117, 109, 98, 101,
   114, 32, 111, 102, 32, 97, 114, 103, 117, 109, 101, 110, 116, 115, 32,
   102, 111, 114, 32, 39, 104, 103, 101, 116, 97, 108, 108, 39, 32, 99, 111,
   109, 109, 97, 110, 100>>
\* "ERR wrong number of arguments for 'del' command"
ErrDel ==
  <<69, 82, 82, 32, 119, 114, 111, 110, 103, 32, 110, 117, 109, 98, 101,
   114, 32, 111, 102, 32, 97, 114, 103, 117, 109, 101, 110, 116, 115, 32,
   102, 111, 114, 32, 39, 100, 101, 108, 39, 32, 99, 111, 109, 109, 97, 110,
   100>>

\* s[i] is a continuation byte of UTF-8 within lo..hi
ContIn(s, i, lo, hi) == i <= Len(s) /\ s[i] >= lo /\ s[i] <= hi

\* utf8.DecodeRuneInString(s[i-1:]): the rune r and its width w; a byte that
\* begins no well-formed encoding is utf8.RuneError (U+FFFD) of width 1
DecodeRune(s, i) ==
  IF s[i] < 128 THEN [r |-> s[i], w |-> 1]
  ELSE IF s[i] >= 194 /\ s[i] <= 223 /\ ContIn(s, i + 1, 128, 191)
  THEN [r |-> (s[i] - 192) * 64 + (s[i + 1] - 128), w |-> 2]
  ELSE IF /\ s[i] >= 224 /\ s[i] <= 239
          /\ ContIn(s, i + 1, IF s[i] = 224 THEN 160 ELSE 128,
                              IF s[i] = 237 THEN 159 ELSE 191)
          /\ ContIn(s, i + 2, 128, 191)
  THEN [r |-> (s[i] - 224) * 4096 + (s[i + 1] - 128) * 64 + (s[i + 2] - 128),
        w |-> 3]
  ELSE IF /\ s[i] >= 240 /\ s[i] <= 244
          /\ ContIn(s, i + 1, IF s[i] = 240 THEN 144 ELSE 128,
                              IF s[i] = 244 THEN 143 ELSE 191)
          /\ ContIn(s, i + 2, 128, 191)
          /\ ContIn(s, i + 3, 128, 191)
  THEN [r |-> (s[i] - 240) * 262144 + (s[i + 1] - 128) * 4096
                + (s[i + 2] - 128) * 64 + (s[i + 3] - 128),
        w |-> 4]
  ELSE [r |-> 65533, w |-> 1]

\* utf8.AppendRune: the UTF-8 encoding of the rune r
EncodeRune(r) ==
  IF r < 128 THEN <<r>>
  ELSE IF r < 2048 THEN <<192 + (r \div 64), 128 + (r % 64)>>
  ELSE IF r < 65536
  THEN <<224 + (r \div 4096), 128 + ((r \div 64) % 64), 128 + (r % 64)>>
  ELSE <<240 + (r \div 262144), 128 + ((r \div 4096) % 64),
         128 + ((r \div 64) % 64), 128 + (r % 64)>>

\* unicode.CaseRanges, the upper-case column (Unicode 14.0.0): <<lo, hi,
\* stride, delta>> says that the runes lo, lo + stride, ..., hi have the
\* upper case rune + delta; a rune in no range is its own upper case
CaseRanges ==
  <<<<181, 181, 1, 743>>, <<224, 246, 1, -32>>, <<248, 254, 1, -32>>,
    <<255, 255, 1, 121>>, <<257, 303, 2, -1>>, <<305, 305, 1, -232>>,
    <<307, 311, 2, -1>>, <<314, 328, 2, -1>>, <<331, 375, 2, -1>>,
    <<378, 382, 2, -1>>, <<383, 383, 1, -300>>, <<384, 384, 1, 195>>,
    <<387, 389, 2, -1>>, <<392, 392, 1, -1>>, <<396, 396, 1, -1>>,
    <<402, 402, 1, -1>>, <<405, 405, 1, 97>>, <<409, 409, 1, -1>>,
    <<410, 410, 1, 163>>, <<414, 414, 1, 130>>, <<417, 421, 2, -1>>,
    <<424, 424, 1, -1>>, <<429, 429, 1, -1>>, <<432, 432, 1, -1>>,
    <<436, 438, 2, -1>>, <<441, 441, 1, -1>>, <<445, 445, 1, -1>>,
    <<447, 447, 1, 56>>, <<453, 453, 1, -1>>, <<454, 454, 1, -2>>,
    <<456, 456, 1, -1>>, <<457, 457, 1, -2>>, <<459, 459, 1, -1>>,
    <<460, 460, 1, -2>>, <<462, 476, 2, -1>>, <<477, 477, 1, -79>>,
    <<479, 495, 2, -1>>, <<498, 498, 1, -1>>, <<499, 499, 1, -2>>,
    <<501, 501, 1, -1>>, <<505, 543, 2, -1>>, <<547, 563, 2, -1>>,
    <<572, 572, 1, -1>>, <<575, 576, 1, 10815>>, <<578, 578, 1, -1>>,
    <<583, 591, 2, -1>>, <<592, 592, 1, 10783>>, <<593, 593, 1, 10780>>,
    <<594, 594, 1, 10782>>, <<595, 595, 1, -210>>, <<596, 596, 1, -206>>,
    <<598, 599, 1, -205>>, <<601, 601, 1, -202>>, <<603, 603, 1, -203>>,
    <<604, 604, 1, 42319>>, <<608, 608, 1, -205>>, <<609, 609, 1, 42315>>,
    <<611, 611, 1, -207>>, <<613, 613, 1, 42280>>, <<614, 614, 1, 42308>>,
    <<616, 616, 1, -209>>, <<617, 617, 1, -211>>, <<618, 618, 1, 42308>>,
    <<619, 619, 1, 10743>>, <<620, 620, 1, 42305>>, <<623, 623, 1, -211>>,
    <<625, 625, 1, 10749>>, <<626, 626, 1, -213>>, <<629, 629, 1, -214>>,
    <<637, 637, 1, 10727>>, <<640, 640, 1, -218>>, <<642, 642, 1, 42307>>,
    <<643, 643, 1, -218>>, <<647, 647, 1, 42282>>, <<648, 648, 1, -218>>,
    <<649, 649, 1, -69>>, <<650, 651, 1, -217>>, <<652, 652, 1, -71>>,
    <<658, 658, 1, -219>>, <<669, 669, 1, 42261>>, <<670, 670, 1, 42258>>,
    <<837, 837, 1, 84>>, <<881, 883, 2, -1>>, <<887, 887, 1, -1>>,
    <<891, 893, 1, 130>>, <<940, 940, 1, -38>>, <<941, 943, 1, -37>>,
    <<945, 961, 1, -32>>, <<962, 962, 1, -31>>, <<963, 971, 1, -32>>,
    <<972, 972, 1, -64>>, <<973, 974, 1, -63>>, <<976, 976, 1, -62>>,
    <<977, 977, 1, -57>>, <<981, 981, 1, -47>>, <<982, 982, 1, -54>>,
    <<983, 983, 1, -8>>, <<985, 1007, 2, -1>>, <<1008, 1008, 1, -86>>,
    <<1009, 1009, 1, -80>>, <<1010, 1010, 1, 7>>, <<1011, 1011, 1, -116>>,
    <<1013, 1013, 1, -96>>, <<1016, 1016, 1, -1>>, <<1019, 1019, 1, -1>>,
    <<1072, 1103, 1, -32>>, <<1104, 1119, 1, -80>>, <<1121, 1153, 2, -1>>,
    <<1163, 1215, 2, -1>>, <<1218, 1230, 2, -1>>, <<1231, 1231, 1, -15>>,
    <<1233, 1327, 2, -1>>, <<1377, 1414, 1, -48>>, <<4304, 4346, 1, 3008>>,
    <<4349, 4351, 1, 3008>>, <<5112, 5117, 1, -8>>, <<7296, 7296, 1, -6254>>,
    <<7297, 7297, 1, -6253>>, <<7298, 7298, 1, -6244>>,
    <<7299, 7300, 1, -6242>>, <<7301, 7301, 1, -6243>>,
    <<7302, 7302, 1, -6236>>, <<7303, 7303, 1, -6181>>,
    <<7304, 7304, 1, 35266>>, <<7545, 7545, 1, 35332>>,
    <<7549, 7549, 1, 3814>>, <<7566, 7566, 1, 35384>>, <<7681, 7829, 2, -1>>,
    <<7835, 7835, 1, -59>>, <<7841, 7935, 2, -1>>, <<7936, 7943, 1, 8>>,
    <<7952, 7957, 1, 8>>, <<7968, 7975, 1, 8>>, <<7984, 7991, 1, 8>>,
    <<8000, 8005, 1, 8>>, <<8017, 8023, 2, 8>>, <<8032, 8039, 1, 8>>,
    <<8048, 8049, 1, 74>>, <<8050, 8053, 1, 86>>, <<8054, 8055, 1, 100>>,
    <<8056, 8057, 1, 128>>, <<8058, 8059, 1, 112>>, <<8060, 8061, 1, 126>>,
    <<8064, 8071, 1, 8>>, <<8080, 8087, 1, 8>>, <<8096, 8103, 1, 8>>,
    <<8112, 8113, 1, 8>>, <<8115, 8115, 1, 9>>, <<8126, 8126, 1, -7205>>,
    <<8131, 8131, 1, 9>>, <<8144, 8145, 1, 8>>, <<8160, 8161, 1, 8>>,
    <<8165, 8165, 1, 7>>, <<8179, 8179, 1, 9>>, <<8526, 8526, 1, -28>>,
    <<8560, 8575, 1, -16>>, <<8580, 8580, 1, -1>>, <<9424, 9449, 1, -26>>,
    <<11312, 11359, 1, -48>>, <<11361, 11361, 1, -1>>,
    <<11365, 11365, 1, -10795>>, <<11366, 11366, 1, -10792>>,
    <<11368, 11372, 2, -1>>, <<11379, 11379, 1, -1>>,
    <<11382, 11382, 1, -1>>, <<11393, 11491, 2, -1>>,
    <<11500, 11502, 2, -1>>, <<11507, 11507, 1, -1>>,
    <<11520, 11557, 1, -7264>>, <<11559, 11559, 1, -7264>>,
    <<11565, 11565, 1, -7264>>, <<42561, 42605, 2, -1>>,
    <<42625, 42651, 2, -1>>, <<42787, 42799, 2, -1>>,
    <<42803, 42863, 2, -1>>, <<42874, 42876, 2, -1>>,
    <<42879, 42887, 2, -1>>, <<42892, 42892, 1, -1>>,
    <<42897, 42899, 2, -1>>, <<42900, 42900, 1, 48>>,
    <<42903, 42921, 2, -1>>, <<42933, 42947, 2, -1>>,
    <<42952, 42954, 2, -1>>, <<42961, 42961, 1, -1>>,
    <<42967, 42969, 2, -1>>, <<42998, 42998, 1, -1>>,
    <<43859, 43859, 1, -928>>, <<43888, 43967, 1, -38864>>,
    <<65345, 65370, 1, -32>>, <<66600, 66639, 1, -40>>,
    <<66776, 66811, 1, -40>>, <<66967, 66977, 1, -39>>,
    <<66979, 66993, 1, -39>>, <<66995, 67001, 1, -39>>,
    <<67003, 67004, 1, -39>>, <<68800, 68850, 1, -64>>,
    <<71872, 71903, 1, -32>>, <<93792, 93823, 1, -32>>,
    <<125218, 125251, 1, -34>>>>

\* the rune r lies in the case range c
InCaseRange(r, c) == r >= c[1] /\ r <= c[2] /\ (r - c[1]) % c[3] = 0

\* unicode.ToUpper(r): simple case mapping, one rune to one rune
UpperRune(r) ==
  IF r < 128
  THEN IF r >= LowerA /\ r <= LowerZ THEN r - CaseGap ELSE r
  ELSE IF \E i \in DOMAIN CaseRanges : InCaseRange(r, CaseRanges[i])
  THEN r + CaseRanges[CHOOSE i \in DOMAIN CaseRanges :
                        InCaseRange(r, CaseRanges[i])][4]
  ELSE r

\* strings.Map(unicode.ToUpper, s) from the byte i on, d being the rune there
RECURSIVE MapUpper(_, _)
MapUpperRune(s, i, d) == EncodeRune(UpperRune(d.r)) \o MapUpper(s, i + d.w)
MapUpper(s, i) == IF i > Len(s) THEN <<>> ELSE MapUpperRune(s, i, DecodeRune(s, i))

\* strings.ToUpper: byte by byte when s is ASCII, rune by rune otherwise
ToUpper(s) ==
  IF \A i \in 1..Len(s) : s[i] < 128
  THEN [i \in 1..Len(s) |->
          IF s[i] >= LowerA /\ s[i] <= LowerZ THEN s[i] - CaseGap ELSE s[i]]
  ELSE MapUpper(s, 1)

(***************************************************************************)
(* Value: the struct {typ, str, num, bulk, array}; absent fields hold Go's *)
(* zero values.                                                            *)
(***************************************************************************)
Value(t, s, n, b, a) == [typ |-> t, str |-> s, num |-> n, bulk |-> b, array |-> a]
ZeroValue == Value("", <<>>, 0, <<>>, <<>>)
StringValue(s) == Value("string", s, 0, <<>>, <<>>)
ErrorValue(s) == Value("error", s, 0, <<>>, <<>>)
BulkValue(b) == Value("bulk", <<>>, 0, b, <<>>)
ArrayValue(a) == Value("array", <<>>, 0, <<>>, a)
NullValue == Value("null", <<>>, 0, <<>>, <<>>)

(***************************************************************************)
(* strconv.Itoa and strconv.ParseInt(s, 10, 64).                           *)
(***************************************************************************)
RECURSIVE ItoaNat(_)
ItoaNat(n) == IF n < 10 THEN <<Digit0 + n>>
              ELSE ItoaNat(n \div 10) \o <<Digit0 + (n % 10)>>

Itoa(n) == IF n < 0 THEN <<Minus>> \o ItoaNat(0 - n) ELSE ItoaNat(n)

IsDigit(b) == b >= Digit0 /\ b <= Digit0 + 9

RECURSIVE DigitsVal(_, _)
DigitsVal(s, acc) == IF s = <<>> THEN acc
                     ELSE DigitsVal(Tail(s), 10 * acc + (Head(s) - Digit0))

\* the digits d without their leading zeros
RECURSIVE StripZeros(_)
StripZeros(d) == IF d # <<>> /\ Head(d) = Digit0 THEN StripZeros(Tail(d)) ELSE d

\* the decimal number a is greater than the decimal number b, both written
\* without leading zeros
DigitsAbove(a, b) ==
  \/ Len(a) > Len(b)
  \/ /\ Len(a) = Len(b)
     /\ \E i \in 1..Len(a) : a[i] > b[i] /\ \A j \in 1..(i - 1) : a[j] = b[j]

\* "9223372036854775807", 1<<63 - 1, and "9223372036854775808", 1<<63:
\* the greatest magnitudes of a positive and of a negative int64
MaxInt64 == <<57, 50, 50, 51, 51, 55, 50, 48, 51, 54, 56, 53, 52, 55, 55, 53, 56, 48, 55>>
MinInt64 == <<57, 50, 50, 51, 51, 55, 50, 48, 51, 54, 56, 53, 52, 55, 55, 53, 56, 48, 56>>
\* "2147483647": the greatest magnitude that the integers of the model hold
MaxExact == <<50, 49, 52, 55, 52, 56, 51, 54, 52, 55>>

\* a number of magnitude mag above MaxExact, which is too wide for val: wide
\* says so, val is the bound of the model's integers on the side of the
\* number and mag its exact magnitude
WideInt(neg, mag, e) ==
  [ok |-> e = "", err |-> e,
   val |-> IF neg THEN 0 - DigitsVal(MaxExact, 0) ELSE DigitsVal(MaxExact, 0),
   wide |-> TRUE, mag |-> mag]

\* ErrRange, with the bound of int64 on the side of the number
RangeError(neg) == WideInt(neg, IF neg THEN MinInt64 ELSE MaxInt64, "range")

\* ParseInt on the sign and the magnitude mag of a well-formed number
ParseMag(neg, mag) ==
  IF DigitsAbove(mag, IF neg THEN MinInt64 ELSE MaxInt64) THEN RangeError(neg)
  ELSE IF DigitsAbove(mag, MaxExact) THEN WideInt(neg, mag, "")
  ELSE [ok |-> TRUE, err |-> "",
        val |-> IF neg THEN 0 - DigitsVal(mag, 0) ELSE DigitsVal(mag, 0),
        wide |-> FALSE, mag |-> mag]

\* "18446744073709551615", 1<<64 - 1: the greatest uint64
MaxUint64 == <<49, 56, 52, 52, 54, 55, 52, 52, 48, 55, 51, 55, 48, 57, 53, 53, 49, 54, 49, 53>>

\* the digits that d begins with, up to its first byte that is no digit
RECURSIVE LeadingDigits(_)
LeadingDigits(d) ==
  IF d = <<>> \/ ~IsDigit(Head(d)) THEN <<>>
  ELSE <<Head(d)>> \o LeadingDigits(Tail(d))

\* ParseUint reads d byte by byte: the digit that takes the number beyond
\* uint64 ends it with ErrRange, a byte that is no digit with ErrSyntax,
\* whichever comes first; an empty d is ErrSyntax
ParseUintErr(d) ==
  IF d = <<>> THEN "syntax"
  ELSE IF DigitsAbove(StripZeros(LeadingDigits(d)), MaxUint64) THEN "range"
  ELSE IF Len(LeadingDigits(d)) < Len(d) THEN "syntax"
  ELSE ""

\* ParseInt, with neg the sign, d what follows the sign and e the error of
\* ParseUint on d
ParseSigned(neg, d, e) ==
  IF e = "syntax"
  THEN [ok |-> FALSE, err |-> e, val |-> 0, wide |-> FALSE, mag |-> <<>>]
  ELSE IF e = "range" THEN RangeError(neg)
  ELSE ParseMag(neg, StripZeros(d))

\* [ok, err, val, wide, mag]: ok is FALSE where ParseInt returns an error,
\* err then "syntax" for ErrSyntax and "range" for ErrRange
ParseInt(s) ==
  IF s # <<>> /\ (s[1] = Plus \/ s[1] = Minus)
  THEN ParseSigned(s[1] = Minus, Tail(s), ParseUintErr(Tail(s)))
  ELSE ParseSigned(FALSE, s, ParseUintErr(s))

(***************************************************************************)
(* Value.Marshal and the per-kind marshallers.                             *)
(***************************************************************************)
marshalString(v) == <<STRING_>> \o v.str \o <<CR, LF>>

\* a string of 2 GiB and more, which the model cannot hold byte by byte: the
\* bytes data, then zero bytes up to the length that the digits mag give.
\* The model holds it as data, WideMark, which is no byte, and mag.  What
\* stands for the zero bytes is below 128 and no letter, as they are, so
\* that ToUpper maps the string held this way as it maps the string.
WideMark == 0 - 1
WideString(data, mag) == data \o <<WideMark>> \o mag
IsWide(s) == \E i \in 1..Len(s) : s[i] = WideMark
\* the digits of the length of the wide string s
WideLen(s) == SubSeq(s, (CHOOSE i \in 1..Len(s) : s[i] = WideMark) + 1, Len(s))

\* in the bytes of a wide string the run of zero bytes stays in its short
\* form; the model cannot decode such bytes again
marshalBulk(v) ==
  <<BULK>> \o (IF IsWide(v.bulk) THEN WideLen(v.bulk) ELSE Itoa(Len(v.bulk)))
    \o <<CR, LF>> \o v.bulk \o <<CR, LF>>

marshallError(v) == <<ERROR>> \o v.str \o <<CR, LF>>

marshallNull == <<36, 45, 49, 13, 10>>

RECURSIVE Marshal(_)
RECURSIVE MarshalElems(_, _)
MarshalElems(a, i) == IF i > Len(a) THEN <<>>
                      ELSE Marshal(a[i]) \o MarshalElems(a, i + 1)

marshalArray(v) == <<ARRAY>> \o Itoa(Len(v.array)) \o <<CR, LF>> \o MarshalElems(v.array, 1)

Marshal(v) == CASE v.typ = "array" -> marshalArray(v)
                [] v.typ = "bulk" -> marshalBulk(v)
                [] v.typ = "string" -> marshalString(v)
                [] v.typ = "null" -> marshallNull
                [] v.typ = "error" -> marshallError(v)
                [] OTHER -> <<>>

(***************************************************************************)
(* bufio.Reader over a byte stream s.  The reader state rd = [r, w] gives, *)
(* as offsets into s, the next unread byte (r) and the end of the bytes    *)
(* already taken from the underlying reader into the buffer (w).  A read   *)
(* of the underlying reader yields the bytes that are there, at most as    *)
(* many as asked for.                                                      *)
(***************************************************************************)
NewReader == [r |-> 0, w |-> 0]

Zeros(n) == [i \in 1..n |-> 0]

\* bufio.Reader.ReadByte: refills the empty buffer, io.EOF at the end of s
ReadByte(s, rd) ==
  IF rd.r < rd.w
  THEN [err |-> "", b |-> s[rd.r + 1], rd |-> [r |-> rd.r + 1, w |-> rd.w]]
  ELSE IF rd.w >= Len(s)
       THEN [err |-> "EOF", b |-> 0, rd |-> rd]
       ELSE [err |-> "", b |-> s[rd.r + 1],
             rd |-> [r |-> rd.r + 1, w |-> Min(rd.w + BufSize, Len(s))]]

\* bufio.Reader.Read(p) with len(p) = n: at most one read of the underlying
\* reader, and only when the buffer is empty; otherwise what is buffered.
\* got is the number of bytes placed in p.
BufRead(s, rd, n) ==
  IF n = 0 THEN [got |-> 0, rd |-> rd]
  ELSE IF rd.r = rd.w
       THEN IF n >= BufSize
            THEN LET k == Min(n, Len(s) - rd.w)
                 IN [got |-> k, rd |-> [r |-> rd.r + k, w |-> rd.w + k]]
            ELSE LET w2 == Min(rd.w + BufSize, Len(s))
                     k == Min(n, w2 - rd.r)
                 IN [got |-> k, rd |-> [r |-> rd.r + k, w |-> w2]]
       ELSE LET k == Min(n, rd.w - rd.r)
            IN [got |-> k, rd |-> [r |-> rd.r + k, w |-> rd.w]]

(***************************************************************************)
(* Resp: readLine, readInteger, Read, readArray, readBulk.  err is "" for  *)
(* nil, "EOF" for io.EOF, "syntax" and "range" for ParseInt's errors,      *)
(* "panic" where the Go runtime panics (the panic unwinds through every    *)
(* caller) and "fatal" where it ends the process with a fatal error.       *)
(***************************************************************************)
\* the machine has the memory for a slice of 2 GiB and more
VARIABLE mem

RECURSIVE readLineLoop(_, _, _)
\* readLine, after the byte b was appended to the line
readLineAppended(s, rd, line) ==
  IF Len(line) >= 2 /\ line[Len(line) - 1] = CR
  THEN [err |-> "", line |-> SubSeq(line, 1, Len(line) - 2), rd |-> rd]
  ELSE readLineLoop(s, rd, line)

\* readLine, with b the outcome of its ReadByte
readLineByte(s, line, b) ==
  IF b.err # "" THEN [err |-> b.err, line |-> <<>>, rd |-> b.rd]
  ELSE readLineAppended(s, b.rd, Append(line, b.b))

readLineLoop(s, rd, line) == readLineByte(s, line, ReadByte(s, rd))

readLine(s, rd) == readLineLoop(s, rd, <<>>)

\* readInteger, with p the outcome of ParseInt on the line
readIntegerParsed(rd, p) ==
  IF ~p.ok THEN [err |-> p.err, x |-> 0, wide |-> FALSE, mag |-> <<>>, rd |-> rd]
  ELSE [err |-> "", x |-> p.val, wide |-> p.wide, mag |-> p.mag, rd |-> rd]

\* readInteger, with l the outcome of its readLine
readIntegerLine(l) ==
  IF l.err # ""
  THEN [err |-> l.err, x |-> 0, wide |-> FALSE, mag |-> <<>>, rd |-> l.rd]
  ELSE readIntegerParsed(l.rd, ParseInt(l.line))

readInteger(s, rd) == readIntegerLine(readLine(s, rd))

\* readBulk, after the trailing line was read into t (its error is dropped)
readBulkDone(bulk, t) == [v |-> BulkValue(bulk), err |-> "", rd |-> t.rd]

\* readBulk, with d the outcome of r.reader.Read(bulk) from offset from on:
\* the bytes read, then the zero bytes of the slice the read did not fill
readBulkData(s, from, len, d) ==
  readBulkDone(SubSeq(s, from + 1, from + d.got) \o Zeros(len - d.got),
               readLine(s, d.rd))

\* readBulk on a len of 2 GiB and more that the machine can give, with d the
\* outcome of r.reader.Read(bulk).  s is shorter than the bound n.x of the
\* model's integers, so that Read takes from it what it would take for len.
readBulkWide(s, from, mag, d) ==
  readBulkDone(WideString(SubSeq(s, from + 1, from + d.got), mag),
               readLine(s, d.rd))

\* "281474976710656", 1<<48: runtime.maxAlloc of a 64-bit build
maxAlloc == <<50, 56, 49, 52, 55, 52, 57, 55, 54, 55, 49, 48, 54, 53, 54>>

\* readBulk, with n the outcome of its readInteger.  make([]byte, len)
\* panics for a negative len and for one above maxAlloc (makeslice: len out
\* of range).  For a len of 2 GiB and more below that, the machine has the
\* memory for the slice and for the string made of it, or the runtime ends
\* the process (fatal error: out of memory).
readBulkLen(s, n) ==
  IF n.err # "" THEN [v |-> BulkValue(<<>>), err |-> n.err, rd |-> n.rd]
  ELSE IF n.x < 0
  THEN [v |-> BulkValue(<<>>), err |-> "panic", rd |-> n.rd]
  ELSE IF n.wide /\ DigitsAbove(n.mag, maxAlloc)
  THEN [v |-> BulkValue(<<>>), err |-> "panic", rd |-> n.rd]
  ELSE IF n.wide /\ ~mem
  THEN [v |-> BulkValue(<<>>), err |-> "fatal", rd |-> n.rd]
  ELSE IF n.wide
  THEN readBulkWide(s, n.rd.r, n.mag, BufRead(s, n.rd, n.x))
  ELSE readBulkData(s, n.rd.r, n.x, BufRead(s, n.rd, n.x))

readBulk(s, rd) == readBulkLen(s, readInteger(s, rd))

RECURSIVE Read(_, _)
RECURSIVE readArrayLoop(_, _, _, _, _)
\* readArray, with e the outcome of reading element i
readArrayElem(s, i, len, arr, e) ==
  IF e.err # "" THEN [v |-> ArrayValue(arr), err |-> e.err, rd |-> e.rd]
  ELSE readArrayLoop(s, e.rd, i + 1, len, Append(arr, e.v))

readArrayLoop(s, rd, i, len, arr) ==
  IF i >= len THEN [v |-> ArrayValue(arr), err |-> "", rd |-> rd]
  ELSE readArrayElem(s, i, len, arr, Read(s, rd))

\* readArray, with n the outcome of its readInteger.  For a len too wide
\* for the model the loop runs with the bound that n.x holds: every turn
\* takes a byte of s or fails, and s is shorter than that bound, so the
\* loop ends as it does for len
readArrayLen(s, n) ==
  IF n.err # "" THEN [v |-> ArrayValue(<<>>), err |-> n.err, rd |-> n.rd]
  ELSE readArrayLoop(s, n.rd, 0, n.x, <<>>)

readArray(s, rd) == readArrayLen(s, readInteger(s, rd))

\* Read, with t the outcome of reading the type byte
ReadType(s, t) ==
  IF t.err # "" THEN [v |-> ZeroValue, err |-> t.err, rd |-> t.rd]
  ELSE CASE t.b = ARRAY -> readArray(s, t.rd)
         [] t.b = BULK -> readBulk(s, t.rd)
         [] OTHER -> [v |-> ZeroValue, err |-> "", rd |-> t.rd]

Read(s, rd) == ReadType(s, ReadByte(s, rd))

(***************************************************************************)
(* The keyspace maps SETs and HSETs and the handlers.  A handler takes the *)
(* arguments and the two maps (S for SETs, H for HSETs) and yields the     *)
(* maps it leaves and the Value it returns.                                *)
(***************************************************************************)
EmptyMap == [k \in {} |-> <<>>]

MapPut(m, k, v) == [x \in DOMAIN m \cup {k} |-> IF x = k THEN v ELSE m[x]]

MapDelete(m, k) == [x \in DOMAIN m \ {k} |-> m[x]]

ping(args, S, H) ==
  [S |-> S, H |-> H,
   res |-> IF Len(args) = 0 THEN StringValue(StrPONG) ELSE StringValue(args[1].bulk)]

\* set adding the value to the one the key already holds
setAppends(args, S, H) ==
  IF Len(args) # 2
  THEN [S |-> S, H |-> H, res |-> ErrorValue(ErrSet)]
  ELSE [S |-> MapPut(S, args[1].bulk,
                     IF args[1].bulk \in DOMAIN S THEN S[args[1].bulk] \o args[2].bulk
                     ELSE args[2].bulk),
        H |-> H, res |-> StringValue(StrOK)]

\* set rejecting only calls with fewer than two arguments
setAtLeastTwo(args, S, H) ==
  IF Len(args) < 2
  THEN [S |-> S, H |-> H, res |-> ErrorValue(ErrSet)]
  ELSE [S |-> MapPut(S, args[1].bulk, args[2].bulk), H |-> H, res |-> StringValue(StrOK)]

\* set leaving a key that is already present as it is
setKeepFirst(args, S, H) ==
  IF Len(args) # 2
  THEN [S |-> S, H |-> H, res |-> ErrorValue(ErrSet)]
  ELSE [S |-> IF args[1].bulk \in DOMAIN S THEN S
              ELSE MapPut(S, args[1].bulk, args[2].bulk),
        H |-> H, res |-> StringValue(StrOK)]

set(args, S, H) ==
  IF Len(args) # 2
  THEN [S |-> S, H |-> H, res |-> ErrorValue(ErrSet)]
  ELSE [S |-> MapPut(S, args[1].bulk, args[2].bulk), H |-> H, res |-> StringValue(StrOK)]

get(args, S, H) ==
  IF Len(args) # 1
  THEN [S |-> S, H |-> H, res |-> ErrorValue(ErrGet)]
  ELSE [S |-> S, H |-> H,
        res |-> IF args[1].bulk \notin DOMAIN S THEN NullValue
                ELSE BulkValue(S[args[1].bulk])]

\* hset keeping no hash but the one it writes
hsetOnlyHash(args, S, H) ==
  IF Len(args) # 3
  THEN [S |-> S, H |-> H, res |-> ErrorValue(ErrHset)]
  ELSE [S |-> S,
        H |-> MapPut(EmptyMap, args[1].bulk,
                     MapPut(IF args[1].bulk \in DOMAIN H THEN H[args[1].bulk] ELSE EmptyMap,
                            args[2].bulk, args[3].bulk)),
        res |-> StringValue(StrOK)]

hset(args, S, H) ==
  IF Len(args) # 3
  THEN [S |-> S, H |-> H, res |-> ErrorValue(ErrHset)]
  ELSE LET hash == args[1].bulk
           created == IF hash \notin DOMAIN H THEN MapPut(H, hash, EmptyMap) ELSE H
       IN [S |-> S,
           H |-> MapPut(created, hash, MapPut(created[hash], args[2].bulk, args[3].bulk)),
           res |-> StringValue(StrOK)]

\* hget making an empty hash of a name it does not find
hgetCreates(args, S, H) ==
  IF Len(args) # 2
  THEN [S |-> S, H |-> H, res |-> ErrorValue(ErrHget)]
  ELSE IF args[1].bulk \notin DOMAIN H
  THEN [S |-> S, H |-> MapPut(H, args[1].bulk, EmptyMap), res |-> NullValue]
  ELSE [S |-> S, H |-> H,
        res |-> IF args[2].bulk \notin DOMAIN H[args[1].bulk] THEN NullValue
                ELSE BulkValue(H[args[1].bulk][args[2].bulk])]

hget(args, S, H) ==
  IF Len(args) # 2
  THEN [S |-> S, H |-> H, res |-> ErrorValue(ErrHget)]
  ELSE LET hash == args[1].bulk
           key == args[2].bulk
           ok == hash \in DOMAIN H /\ key \in DOMAIN H[hash]
       IN [S |-> S, H |-> H, res |-> IF ~ok THEN NullValue ELSE BulkValue(H[hash][key])]

\* the orders in which `range` may visit the keys of a map
RangeOrders(m) ==
  {o \in [1..Cardinality(DOMAIN m) -> DOMAIN m] : Range(o) = DOMAIN m}

\* the array of hgetall with each value put before its field
HgetallArrayValueFirst(m, o) ==
  [i \in 1..(2 * Len(o)) |->
     IF i % 2 = 1 THEN BulkValue(m[o[(i + 1) \div 2]]) ELSE BulkValue(o[i \div 2])]

\* the array hgetall builds when range visits the fields in order o
HgetallArray(m, o) ==
  [i \in 1..(2 * Len(o)) |->
     IF i % 2 = 1 THEN BulkValue(o[(i + 1) \div 2]) ELSE BulkValue(m[o[i \div 2]])]

\* hgetall: one outcome for each order of iteration over the hash
hgetall(args, S, H) ==
  IF Len(args) # 1
  THEN {[S |-> S, H |-> H, res |-> ErrorValue(ErrHgetall)]}
  ELSE IF args[1].bulk \notin DOMAIN H
  THEN {[S |-> S, H |-> H, res |-> NullValue]}
  ELSE {[S |-> S, H |-> H, res |-> ArrayValue(HgetallArray(H[args[1].bulk], o))] :
          o \in RangeOrders(H[args[1].bulk])}

\* the loop of del over its arguments, from argument i on
RECURSIVE delLoop(_, _, _, _, _)
delLoop(args, i, S, H, deletedCount) ==
  IF i > Len(args) THEN [S |-> S, H |-> H, n |-> deletedCount]
  ELSE LET key == args[i].bulk
       IN IF key \in DOMAIN S
          THEN delLoop(args, i + 1, MapDelete(S, key), H, deletedCount + 1)
          ELSE IF key \in DOMAIN H
          THEN delLoop(args, i + 1, S, MapDelete(H, key), deletedCount + 1)
          ELSE delLoop(args, i + 1, S, H, deletedCount)

del(args, S, H) ==
  IF Len(args) < 1
  THEN [S |-> S, H |-> H, res |-> ErrorValue(ErrDel)]
  ELSE LET d == delLoop(args, 1, S, H, 0)
       IN [S |-> d.S, H |-> d.H, res |-> StringValue(Itoa(d.n))]

\* the registry Handlers: the command names it holds
Handlers == {NamePING, NameSET, NameGET, NameHSET, NameHGET, NameHGETALL, NameDEL}

\* the outcomes of calling Handlers[command](args)
CallHandler(command, args, S, H) ==
  CASE command = NamePING -> {ping(args, S, H)}
    [] command = NameSET -> {set(args, S, H)}
    [] command = NameGET -> {get(args, S, H)}
    [] command = NameHSET -> {hset(args, S, H)}
    [] command = NameHGET -> {hget(args, S, H)}
    [] command = NameHGETALL -> hgetall(args, S, H)
    [] command = NameDEL -> {del(args, S, H)}

(***************************************************************************)
(* The requests clients send: arrays of bulk strings, a command name and   *)
(* its arguments.  Keys, fields and values are the tokens "a" and "b".     *)
(***************************************************************************)
TokA == <<97>>
TokB == <<98>>
Tokens == {TokA, TokB}
NameLowerGet == <<103, 101, 116>>
NameFOO == <<70, 79, 79>>
\* "\u017fet" (LATIN SMALL LETTER LONG S), which strings.ToUpper turns into "SET"
NameLongSet == <<197, 191, 101, 116>>
\* "p\u0131ng" (LATIN SMALL LETTER DOTLESS I), which it turns into "PING"
NameDotlessPing == <<112, 196, 177, 110, 103>>
\* the byte 0xff, which is no UTF-8 and which it turns into U+FFFD
NameBadUTF8 == <<255>>

Command(name, args) == ArrayValue(<<BulkValue(name)>> \o args)

\* every argument list of n tokens
ArgsOf(n) == {[i \in 1..n |-> BulkValue(a[i])] : a \in [1..n -> Tokens]}

\* the argument list of n times the token "a"
ArgsA(n) == [i \in 1..n |-> BulkValue(TokA)]

\* requests of the right arity
GoodRequests ==
  {Command(NameSET, a) : a \in ArgsOf(2)}
    \cup {Command(NameHSET, a) : a \in ArgsOf(3)}
    \cup {Command(n, a) : n \in {NameGET, NameLowerGet, NameHGETALL}, a \in ArgsOf(1)}
    \cup {Command(NameHGET, a) : a \in ArgsOf(2)}
    \cup {Command(NameDEL, a) : a \in ArgsOf(1) \cup ArgsOf(2)}
    \cup {Command(NamePING, a) : a \in ArgsOf(0) \cup ArgsOf(1)}
    \cup {Command(NameLongSet, ArgsA(2)), Command(NameDotlessPing, ArgsA(0))}

\* requests with one argument too few or one too many, and unknown commands
BadRequests ==
  {Command(NameSET, ArgsA(n)) : n \in {1, 3}}
    \cup {Command(NameHSET, ArgsA(n)) : n \in {2, 4}}
    \cup {Command(NameGET, ArgsA(n)) : n \in {0, 2}}
    \cup {Command(NameHGET, ArgsA(n)) : n \in {1, 3}}
    \cup {Command(NameHGETALL, ArgsA(n)) : n \in {0, 2}}
    \cup {Command(NameDEL, ArgsA(0)), Command(NameFOO, ArgsA(0)), Command(NameFOO, ArgsA(1)),
          Command(NameBadUTF8, ArgsA(0))}

Requests == GoodRequests \cup BadRequests

\* what one read of the connection may deliver: one request, whole
Arrivals == {Marshal(v) : v \in Requests}

\* the requests main appends to the AOF
LoggedRequests == {v \in Requests : ToUpper(v.array[1].bulk) \in {NameSET, NameHSET}}

\* the bytes of a file to which the records of log were appended in order
RECURSIVE MarshalAll(_)
MarshalAll(log) == IF log = <<>> THEN <<>>
                   ELSE Marshal(Head(log)) \o MarshalAll(Tail(log))

(***************************************************************************)
(* State.                                                                  *)
(***************************************************************************)
VARIABLES
  SETs,     \* handler.go: the string store
  HSETs,    \* handler.go: the hash store
  file,     \* the bytes of database.aof
  off,      \* the offset of the open file aof.file
  pc,       \* main: "replay" in aof.Read, "accept" in l.Accept, "serve" in
            \* the loop, "down" once the process has ended
  rd,       \* aof.Read: the state of its reader over the file
  out,      \* bytes the server has written and the client has not read
  client,   \* the client: "idle", or "got" once main has handled its request
  req,      \* history: the Value main decoded last
  res,      \* history: the Value main answered it with
  pre,      \* history: the maps as they were when that request was dispatched
  records,  \* history: the Values appended to the file, in order
  replayed, \* history: the Values aof.Read has passed to the callback
  shut,     \* history: the maps the previous process held when it was stopped
  lastSet,  \* history: per key, the value of the latest set call of this
            \* process that no later del call named
  lastHset, \* history: per hash and field, the value of the latest hset call
            \* of this process, for the hashes no del call has removed since
  appended, \* the number of records appended since the model run began
  readRet,  \* what aof.Read returned: "" until it returns, then "nil" or the
            \* error
  decErr,   \* history: the error of the latest reader.Read() of aof.Read
  unsupported, \* history: resp.Read() met a type byte it has no case for, on
            \* the connection main serves
  tasks,    \* the goroutines that call handlers: where each one is, and its
            \* local variables
  locks,    \* SETsMu, HSETsMu and aof.mu: who holds them
  closed,   \* aof.file has been closed
  conn      \* the connection main serves: chunks, the bytes the client has
            \* sent and main has not read, one element for each read of
            \* the connection; history: sent, the requests the client has
            \* sent, and got, the requests main has passed to a handler

vars == <<SETs, HSETs, file, off, pc, rd, out, client, req, res, pre,
          records, replayed, shut, lastSet, lastHset, appended,
          readRet, decErr, unsupported, tasks, locks, closed, conn, mem>>

hist == <<records, replayed, shut, lastSet, lastHset>>

\* the state of the goroutines and of the locks, and the connection
conc == <<tasks, locks, closed, conn, mem>>

\* os.File.Write at the file's offset
FileWrite(f, o, bytes) ==
  SubSeq(f, 1, o) \o bytes \o SubSeq(f, o + Len(bytes) + 1, Len(f))

\* the callback main hands to aof.Read: the outcomes of one call
Callback(value, S, H) ==
  IF Len(value.array) = 0
  THEN \* value.array[0]: index out of range
       {[S |-> S, H |-> H, panic |-> TRUE]}
  ELSE IF ToUpper(value.array[1].bulk) \notin Handlers
  THEN {[S |-> S, H |-> H, panic |-> FALSE]}
  ELSE {[S |-> o.S, H |-> o.H, panic |-> FALSE] :
          o \in CallHandler(ToUpper(value.array[1].bulk), Tail(value.array), S, H)}

(***************************************************************************)
(* The history of the handler calls of this process.                      *)
(***************************************************************************)
ArgKeys(args) == {args[i].bulk : i \in 1..Len(args)}

\* lastSet after the call command(args)
TrackSet(last, command, args) ==
  IF command = NameSET /\ Len(args) = 2 THEN MapPut(last, args[1].bulk, args[2].bulk)
  ELSE IF command = NameDEL THEN [k \in DOMAIN last \ ArgKeys(args) |-> last[k]]
  ELSE last

\* lastHset after the call command(args) made when the string store was S:
\* del removes a hash it names when S does not hold the name at that turn of
\* its loop (handler.go:215-225)
TrackHset(last, command, args, S) ==
  IF command = NameHSET /\ Len(args) = 3
  THEN MapPut(last, args[1].bulk,
              MapPut(IF args[1].bulk \in DOMAIN last THEN last[args[1].bulk] ELSE EmptyMap,
                     args[2].bulk, args[3].bulk))
  ELSE IF command = NameDEL
  THEN del(args, S, last).H
  ELSE last

NoMaps == [known |-> FALSE, S |-> EmptyMap, H |-> EmptyMap]

\* no goroutine is calling a handler, no lock is held
NoTasks == [t \in {} |-> <<>>]
\* the client has sent nothing
NoConn == [chunks |-> <<>>, sent |-> <<>>, got |-> <<>>]
NoLocks == [SETsMu |-> [w |-> 0, r |-> {}], HSETsMu |-> [w |-> 0, r |-> {}], mu |-> 0]

\* the Value holds a Value that Read returned on a type byte it has no case for
RECURSIVE MetUnsupported(_)
MetUnsupported(v) ==
  \/ v.typ = ""
  \/ \E i \in 1..Len(v.array) : MetUnsupported(v.array[i])

\* the process starts on a file holding the records of one of the logs
InitOn(logs) ==
  /\ SETs = EmptyMap
  /\ HSETs = EmptyMap
  /\ records \in logs
  /\ file = MarshalAll(records)
  /\ off = 0
  /\ pc = "replay"
  /\ rd = NewReader
  /\ out = <<>>
  /\ client = "idle"
  /\ req = ZeroValue
  /\ res = ZeroValue
  /\ pre = [S |-> EmptyMap, H |-> EmptyMap]
  /\ replayed = <<>>
  /\ shut = NoMaps
  /\ lastSet = EmptyMap
  /\ lastHset = EmptyMap
  /\ appended = 0
  /\ readRet = ""
  /\ decErr = ""
  /\ unsupported = FALSE
  /\ tasks = NoTasks
  /\ locks = NoLocks
  /\ closed = FALSE
  /\ mem = FALSE
  /\ conn = NoConn

Init == InitOn({<<>>})

\* aof.Read, with e the outcome of reader.Read(): the rest of that turn of
\* its loop, the callback included
ReplayValue(e) ==
  IF e.err \in {"panic", "fatal"}
  THEN /\ pc' = "down"
       /\ rd' = NewReader
       /\ decErr' = e.err
       /\ UNCHANGED <<SETs, HSETs, replayed, lastSet, lastHset, readRet>>
  ELSE IF e.err # ""
  THEN \* io.EOF ends the loop; any other error is returned, and main does
       \* not look at what aof.Read returns
       /\ pc' = "accept"
       /\ rd' = NewReader
       /\ decErr' = e.err
       /\ readRet' = IF e.err = "EOF" THEN "nil" ELSE e.err
       /\ UNCHANGED <<SETs, HSETs, replayed, lastSet, lastHset>>
  ELSE /\ replayed' = Append(replayed, e.v)
       /\ decErr' = ""
       /\ UNCHANGED readRet
       /\ \E o \in Callback(e.v, SETs, HSETs) :
            /\ pc' = IF o.panic THEN "down" ELSE "replay"
            /\ rd' = IF o.panic THEN NewReader ELSE e.rd
            /\ SETs' = o.S
            /\ HSETs' = o.H
            /\ lastSet' = IF o.panic THEN lastSet
                          ELSE TrackSet(lastSet, ToUpper(e.v.array[1].bulk),
                                        Tail(e.v.array))
            /\ lastHset' = IF o.panic THEN lastHset
                           ELSE TrackHset(lastHset, ToUpper(e.v.array[1].bulk),
                                          Tail(e.v.array), SETs)

\* aof.Read: one turn of its loop
ReplayStep ==
  /\ pc = "replay"
  /\ ReplayValue(Read(file, rd))
  /\ off' = Read(file, rd).rd.w
  /\ UNCHANGED <<file, out, client, req, res, pre, records, shut, appended,
                 unsupported>>
  /\ closed' = (pc' = "down")
  /\ UNCHANGED <<tasks, locks, conn, mem>>

\* l.Accept returns: a client has connected
Accept ==
  /\ pc = "accept"
  /\ pc' = "serve"
  /\ replayed' = <<>>
  /\ shut' = NoMaps
  /\ unsupported' = FALSE
  /\ UNCHANGED <<SETs, HSETs, file, off, rd, out, client, req, res, pre,
                 records, lastSet, lastHset, appended, readRet, decErr>>
  /\ UNCHANGED conc

\* main, from the lookup in Handlers on: command is registered
Dispatch(value, command, args) ==
  /\ (command = NameSET \/ command = NameHSET) => appended < MaxLog
  /\ IF command = NameSET \/ command = NameHSET
     THEN \* aof.Write(value)
          /\ file' = FileWrite(file, off, Marshal(value))
          /\ off' = off + Len(Marshal(value))
          /\ records' = Append(records, value)
          /\ appended' = appended + 1
     ELSE UNCHANGED <<file, off, records, appended>>
  /\ \E o \in CallHandler(command, args, SETs, HSETs) :
       /\ SETs' = o.S
       /\ HSETs' = o.H
       /\ res' = o.res
       /\ out' = out \o Marshal(o.res)
       /\ lastHset' = TrackHset(lastHset, command, args, SETs)
  /\ lastSet' = TrackSet(lastSet, command, args)
  /\ UNCHANGED pc

\* main appending the request to the AOF before it looks the command up
ServeValueLogsFirst(e) ==
  /\ req' = e.v
  /\ pre' = [S |-> SETs, H |-> HSETs]
  /\ client' = "got"
  /\ unsupported' = (unsupported \/ (e.err = "" /\ MetUnsupported(e.v)))
  /\ IF e.err # ""
     THEN /\ pc' = "down"
          /\ res' = ZeroValue
          /\ UNCHANGED <<SETs, HSETs, file, off, out, records, lastSet, lastHset, appended>>
     ELSE IF e.v.typ # "array" \/ Len(e.v.array) = 0
     THEN /\ res' = ZeroValue
          /\ UNCHANGED <<SETs, HSETs, file, off, out, pc, records, lastSet, lastHset,
                         appended>>
     ELSE IF ToUpper(e.v.array[1].bulk) \notin Handlers
     THEN /\ appended < MaxLog
          /\ file' = FileWrite(file, off, Marshal(e.v))
          /\ off' = off + Len(Marshal(e.v))
          /\ records' = Append(records, e.v)
          /\ appended' = appended + 1
          /\ res' = StringValue(<<>>)
          /\ out' = out \o Marshal(StringValue(<<>>))
          /\ UNCHANGED <<SETs, HSETs, pc, lastSet, lastHset>>
     ELSE Dispatch(e.v, ToUpper(e.v.array[1].bulk), Tail(e.v.array))

\* main, with e the outcome of resp.Read(): the rest of that turn of the loop
ServeValue(e) ==
  /\ req' = e.v
  /\ pre' = [S |-> SETs, H |-> HSETs]
  /\ client' = "got"
  /\ unsupported' = (unsupported \/ (e.err = "" /\ MetUnsupported(e.v)))
  /\ IF e.err # ""
     THEN \* main returns: the process ends
          /\ pc' = "down"
          /\ res' = ZeroValue
          /\ UNCHANGED <<SETs, HSETs, file, off, out, records, lastSet, lastHset, appended>>
     ELSE IF e.v.typ # "array" \/ Len(e.v.array) = 0
     THEN /\ res' = ZeroValue
          /\ UNCHANGED <<SETs, HSETs, file, off, out, pc, records, lastSet, lastHset,
                         appended>>
     ELSE IF ToUpper(e.v.array[1].bulk) \notin Handlers
     THEN /\ res' = StringValue(<<>>)
          /\ out' = out \o Marshal(StringValue(<<>>))
          /\ UNCHANGED <<SETs, HSETs, file, off, pc, records, lastSet, lastHset, appended>>
     ELSE Dispatch(e.v, ToUpper(e.v.array[1].bulk), Tail(e.v.array))

\* main: one turn of the serving loop, on the bytes one read of the
\* connection delivers to the turn's new reader
ServeOne ==
  /\ pc = "serve"
  /\ client = "idle"
  /\ \E data \in Arrivals : ServeValue(Read(data, NewReader))
  /\ UNCHANGED <<rd, replayed, shut, readRet, decErr>>
  /\ closed' = (pc' = "down")
  /\ UNCHANGED <<tasks, locks, conn, mem>>

\* the client takes the answer and is ready for its next request
ClientRecv ==
  /\ client = "got"
  /\ client' = "idle"
  /\ out' = <<>>
  /\ req' = ZeroValue
  /\ res' = ZeroValue
  /\ pre' = [S |-> EmptyMap, H |-> EmptyMap]
  /\ UNCHANGED <<SETs, HSETs, file, off, pc, rd, appended, readRet, decErr,
                 unsupported>>
  /\ UNCHANGED hist
  /\ UNCHANGED conc

\* the process is stopped between two requests and started again: the maps
\* start empty, NewAof opens the file and aof.Read seeks to its start
Restart ==
  /\ pc \in {"accept", "serve", "down"}
  /\ client = "idle"
  /\ pc' = "replay"
  /\ shut' = IF pc = "down" THEN NoMaps ELSE [known |-> TRUE, S |-> SETs, H |-> HSETs]
  /\ SETs' = EmptyMap
  /\ HSETs' = EmptyMap
  /\ lastSet' = EmptyMap
  /\ lastHset' = EmptyMap
  /\ replayed' = <<>>
  /\ off' = 0
  /\ rd' = NewReader
  /\ readRet' = ""
  /\ decErr' = ""
  /\ unsupported' = FALSE
  /\ UNCHANGED <<file, out, client, req, res, pre, records, appended>>
  /\ closed' = FALSE
  /\ UNCHANGED <<tasks, locks, conn, mem>>

Next == ReplayStep \/ Accept \/ ServeOne \/ ClientRecv \/ Restart

Spec == Init /\ [][Next]_vars

(***************************************************************************)
(* The startup of a process on a log that earlier processes wrote.         *)
(***************************************************************************)
\* every log of at most n records that main appends
RECURSIVE LogsUpTo(_)
LogsUpTo(n) ==
  IF n = 0 THEN {<<>>}
  ELSE LogsUpTo(n - 1)
         \cup {Append(l, v) : l \in {x \in LogsUpTo(n - 1) : Len(x) = n - 1},
                              v \in LoggedRequests}

\* SET a 1, HSET h f 2, SET a 3
ExampleLog ==
  <<Command(NameSET, <<BulkValue(TokA), BulkValue(<<49>>)>>),
    Command(NameHSET, <<BulkValue(<<104>>), BulkValue(<<102>>), BulkValue(<<50>>)>>),
    Command(NameSET, <<BulkValue(TokA), BulkValue(<<51>>)>>)>>

\* SET a v, SET a b, with v as long as makes the reader's first buffer end
\* two bytes into the second record's command name: the first record takes
\* 29 bytes besides v, the name starts 8 bytes into the second
LongLen == BufSize - 39
LongLog ==
  <<Command(NameSET, <<BulkValue(TokA), BulkValue([i \in 1..LongLen |-> 120])>>),
    Command(NameSET, <<BulkValue(TokA), BulkValue(TokB)>>)>>

ReplayLogs == LogsUpTo(MaxLog) \cup {ExampleLog, LongLog}

InitReplay == InitOn(ReplayLogs)

NextReplay == ReplayStep \/ Accept

SpecReplay == InitReplay /\ [][NextReplay]_vars

(***************************************************************************)
(* Properties.  They speak of the request main handled last (req), the     *)
(* maps before it (pre), the maps after it (SETs, HSETs) and the answer    *)
(* (res), in the states where the client holds that answer.                *)
(***************************************************************************)
\* main called the handler registered under name for req
Called(name) ==
  /\ client = "got"
  /\ req.typ = "array"
  /\ Len(req.array) >= 1
  /\ ToUpper(req.array[1].bulk) = name

\* the arguments of req
ReqArgs == Tail(req.array)

\* the number an answer carries, as an integer payload or as decimal text
CountIn(v) == IF v.typ = "integer" THEN v.num ELSE ParseInt(v.str).val

InMap(k, m) == IF k \in DOMAIN m THEN 1 ELSE 0

\* C1: DEL k returns 1 when k exists only as a scalar or only as a hash, 2
\* when k exists both as a scalar and as a hash key, and 0 when k exists in
\* neither namespace.
C1_DelCountsNamespaces ==
  (Called(NameDEL) /\ Len(ReqArgs) = 1)
    => /\ ParseInt(res.str).ok \/ res.typ = "integer"
       /\ CountIn(res) = InMap(ReqArgs[1].bulk, pre.S) + InMap(ReqArgs[1].bulk, pre.H)

\* C2: after DEL k1..kn every named key is absent from both namespaces: a
\* following GET ki and HGETALL ki both return Null.
C2_DelRemovesEverywhere ==
  (Called(NameDEL) /\ Len(ReqArgs) >= 1)
    => \A i \in 1..Len(ReqArgs) :
         /\ ReqArgs[i].bulk \notin DOMAIN SETs
         /\ ReqArgs[i].bulk \notin DOMAIN HSETs
         /\ get(<<ReqArgs[i]>>, SETs, HSETs).res = NullValue
         /\ \A o \in hgetall(<<ReqArgs[i]>>, SETs, HSETs) : o.res = NullValue

\* C3: after any sequence of client commands, restarting and replaying the
\* log into an empty store yields the maps the live store held when the
\* process was stopped.
C3_ReplayRestoresStore ==
  (pc = "accept" /\ shut.known) => (SETs = shut.S /\ HSETs = shut.H)

\* the records of a log that are calls of set and of hset with the right arity
IsSetRecord(r) == Len(r.array) = 3 /\ ToUpper(r.array[1].bulk) = NameSET
IsHsetRecord(r) == Len(r.array) = 4 /\ ToUpper(r.array[1].bulk) = NameHSET

MaxOf(I) == CHOOSE i \in I : \A j \in I : j <= i

\* the value of the last record of log that sets key k
LastSetValue(log, k) ==
  log[MaxOf({i \in 1..Len(log) : IsSetRecord(log[i]) /\ log[i].array[2].bulk = k})].array[3].bulk

\* the value of the last record of log that sets field f of hash h
LastHsetValue(log, h, f) ==
  log[MaxOf({i \in 1..Len(log) : /\ IsHsetRecord(log[i])
                                 /\ log[i].array[2].bulk = h
                                 /\ log[i].array[3].bulk = f})].array[4].bulk

\* C4: replay invokes the callback exactly once per record of the log, in
\* log order, and leaves each scalar key and each hash field holding the
\* value of the last record that wrote it.
C4_ReplayOncePerRecordInOrder ==
  pc = "accept"
    => /\ replayed = records
       /\ \A i \in 1..Len(records) :
            /\ IsSetRecord(records[i])
                 => /\ records[i].array[2].bulk \in DOMAIN SETs
                    /\ SETs[records[i].array[2].bulk]
                         = LastSetValue(records, records[i].array[2].bulk)
            /\ IsHsetRecord(records[i])
                 => /\ records[i].array[2].bulk \in DOMAIN HSETs
                    /\ records[i].array[3].bulk \in DOMAIN HSETs[records[i].array[2].bulk]
                    /\ HSETs[records[i].array[2].bulk][records[i].array[3].bulk]
                         = LastHsetValue(records, records[i].array[2].bulk,
                                         records[i].array[3].bulk)

\* the Values a log file holds, as the codec reads them back
RECURSIVE DecodeFrom(_, _)
DecodeNext(s, e) == IF e.err # "" THEN <<>> ELSE <<e.v>> \o DecodeFrom(s, e.rd)
DecodeFrom(s, r) == DecodeNext(s, Read(s, r))
LogOf(f) == DecodeFrom(f, NewReader)

HasSetRecord(log, k) ==
  \E i \in 1..Len(log) : IsSetRecord(log[i]) /\ log[i].array[2].bulk = k
HasHsetRecord(log, h, f) ==
  \E i \in 1..Len(log) :
    IsHsetRecord(log[i]) /\ log[i].array[2].bulk = h /\ log[i].array[3].bulk = f

\* the store holds, for every key and hash field, the value of the last
\* record of log that writes it
StoreHoldsLatestOf(log) ==
  /\ \A k \in DOMAIN SETs :
       /\ HasSetRecord(log, k)
       /\ SETs[k] = LastSetValue(log, k)
  /\ \A h \in DOMAIN HSETs : \A f \in DOMAIN HSETs[h] :
       /\ HasHsetRecord(log, h, f)
       /\ HSETs[h][f] = LastHsetValue(log, h, f)

\* "wrong number of arguments for '"
WrongArgsHead ==
  <<119, 114, 111, 110, 103, 32, 110, 117, 109, 98, 101, 114, 32, 111, 102, 32,
    97, 114, 103, 117, 109, 101, 110, 116, 115, 32, 102, 111, 114, 32, 39>>
\* "' command"
WrongArgsTail == <<39, 32, 99, 111, 109, 109, 97, 110, 100>>

\* the command name in lower case
Lower(name) == [i \in 1..Len(name) |->
                  IF name[i] >= 65 /\ name[i] <= 90 THEN name[i] + 32 ELSE name[i]]

Contains(s, sub) ==
  \E i \in 0..(Len(s) - Len(sub)) : SubSeq(s, i + 1, i + Len(sub)) = sub

\* the argument counts each command rejects
ArityViolated(name, n) ==
  \/ name = NameSET /\ n # 2
  \/ name = NameGET /\ n # 1
  \/ name = NameHSET /\ n # 3
  \/ name = NameHGET /\ n # 2
  \/ name = NameHGETALL /\ n # 1
  \/ name = NameDEL /\ n = 0

\* C6: a call whose argument count violates the command's arity returns an
\* Error whose text contains "wrong number of arguments for '<command>'
\* command" and leaves both namespaces unchanged.
C6_ArityErrorLeavesMaps ==
  \A name \in {NameSET, NameGET, NameHSET, NameHGET, NameHGETALL, NameDEL} :
    (Called(name) /\ ArityViolated(name, Len(ReqArgs)))
      => /\ res.typ = "error"
         /\ Contains(res.str, WrongArgsHead \o Lower(name) \o WrongArgsTail)
         /\ SETs = pre.S
         /\ HSETs = pre.H

\* SET with three arguments was rejected while the string store held a key
C6_Witness ==
  /\ Called(NameSET)
  /\ Len(ReqArgs) = 3
  /\ res.typ = "error"
  /\ DOMAIN pre.S # {}
  /\ SETs = pre.S

\* C7: GET k returns a BulkString holding the value of the most recent SET k
\* v that no DEL of k followed, and Null when k was never set or was deleted
\* since its last SET.
C7_GetReturnsLatestSet ==
  (Called(NameGET) /\ Len(ReqArgs) = 1)
    => res = IF ReqArgs[1].bulk \in DOMAIN lastSet
             THEN BulkValue(lastSet[ReqArgs[1].bulk])
             ELSE NullValue

\* GET of a key that was set twice, to different values, returns the second
C7_Witness ==
  /\ Called(NameGET)
  /\ Len(ReqArgs) = 1
  /\ Len(records) = 2
  /\ IsSetRecord(records[1]) /\ IsSetRecord(records[2])
  /\ records[1].array[2].bulk = ReqArgs[1].bulk
  /\ records[2].array[2].bulk = ReqArgs[1].bulk
  /\ records[1].array[3].bulk # records[2].array[3].bulk
  /\ res = BulkValue(records[2].array[3].bulk)

\* C8: HSET h f v creates hash entry h when it is absent and sets field f to
\* v; HGET h f returns the value last written to field f of h when both are
\* present and Null when h or f is absent; after a DEL that names h, HGET h f
\* returns Null for every field f.
C8_HsetHgetLatestField ==
  /\ (Called(NameHSET) /\ Len(ReqArgs) = 3)
       => /\ ReqArgs[1].bulk \in DOMAIN HSETs
          /\ ReqArgs[2].bulk \in DOMAIN HSETs[ReqArgs[1].bulk]
          /\ HSETs[ReqArgs[1].bulk][ReqArgs[2].bulk] = ReqArgs[3].bulk
          /\ ReqArgs[1].bulk \notin DOMAIN pre.H
               => DOMAIN HSETs[ReqArgs[1].bulk] = {ReqArgs[2].bulk}
  /\ (Called(NameHGET) /\ Len(ReqArgs) = 2)
       => res = IF /\ ReqArgs[1].bulk \in DOMAIN lastHset
                   /\ ReqArgs[2].bulk \in DOMAIN lastHset[ReqArgs[1].bulk]
                THEN BulkValue(lastHset[ReqArgs[1].bulk][ReqArgs[2].bulk])
                ELSE NullValue
  /\ (Called(NameDEL) /\ Len(ReqArgs) >= 1)
       => \A h \in DOMAIN pre.H \cap ArgKeys(ReqArgs) : \A f \in Tokens :
            hget(<<BulkValue(h), BulkValue(f)>>, SETs, HSETs).res = NullValue

\* C9: HGETALL h returns Null when h is absent from the hash namespace; when
\* h is present with n fields it returns an Array of exactly 2n BulkStrings
\* in which every field of h appears exactly once at an even (0-based) index,
\* immediately followed by that field's value.
C9_HgetallPairsEveryField ==
  (Called(NameHGETALL) /\ Len(ReqArgs) = 1)
    => IF ReqArgs[1].bulk \notin DOMAIN pre.H
       THEN res = NullValue
       ELSE /\ res.typ = "array"
            /\ Len(res.array) = 2 * Cardinality(DOMAIN pre.H[ReqArgs[1].bulk])
            /\ \A i \in 1..Len(res.array) : res.array[i].typ = "bulk"
            /\ \A f \in DOMAIN pre.H[ReqArgs[1].bulk] :
                 /\ Cardinality({i \in 1..Len(res.array) :
                                   i % 2 = 1 /\ res.array[i].bulk = f}) = 1
                 /\ \A i \in 1..Len(res.array) :
                      (i % 2 = 1 /\ res.array[i].bulk = f)
                        => res.array[i + 1].bulk = pre.H[ReqArgs[1].bulk][f]

\* HGETALL of a hash with two fields whose values differ from their names
C9_Witness ==
  /\ Called(NameHGETALL)
  /\ Len(ReqArgs) = 1
  /\ res.typ = "array"
  /\ Len(res.array) = 4
  /\ res.array[1].bulk # res.array[2].bulk

\* C10: the Value DEL returns on success has kind Integer and carries the
\* deleted count as its integer payload, so that its wire encoding is a
\* non-empty Integer frame.
C10_DelReturnsIntegerKind ==
  (Called(NameDEL) /\ Len(ReqArgs) >= 1)
    => /\ res.typ = "integer"
       /\ res.num = (Cardinality(DOMAIN pre.S) - Cardinality(DOMAIN SETs))
                      + (Cardinality(DOMAIN pre.H) - Cardinality(DOMAIN HSETs))
       /\ Marshal(res) # <<>>
       /\ Marshal(res)[1] = INTEGER

(***************************************************************************)
(* The codec on one Value: aof.Write encodes it into the file, aof.Read    *)
(* decodes the file.                                                       *)
(***************************************************************************)
CodecStrings == {<<>>, TokA}

\* the Values without elements: simple strings, errors, bulk strings, null
CodecLeaves ==
  {StringValue(s) : s \in CodecStrings}
    \cup {ErrorValue(s) : s \in CodecStrings}
    \cup {BulkValue(s) : s \in CodecStrings}
    \cup {NullValue}

\* arrays of at most two leaves, and arrays holding one such array
CodecArrays ==
  {ArrayValue(<<>>)}
    \cup {ArrayValue(<<x>>) : x \in CodecLeaves}
    \cup {ArrayValue(<<x, y>>) : x \in CodecLeaves, y \in CodecLeaves}

ValueTrees ==
  CodecLeaves \cup CodecArrays \cup {ArrayValue(<<a>>) : a \in CodecArrays}

InitCodec == InitOn({<<v>> : v \in ValueTrees})

SpecCodec == InitCodec /\ [][NextReplay]_vars

\* d is structurally equal to v, a null of v being a bulk-typed Value in d
RECURSIVE RoundTrips(_, _)
RoundTrips(v, d) ==
  IF v.typ = "null" THEN d.typ = "bulk"
  ELSE IF v.typ = "array"
  THEN /\ d.typ = "array"
       /\ Len(d.array) = Len(v.array)
       /\ \A i \in 1..Len(v.array) : RoundTrips(v.array[i], d.array[i])
  ELSE d = v

\* C11: for every Value tree of simple strings, errors, bulk strings, arrays
\* and nulls, decoding its encoding neither fails nor returns an empty Value
\* and yields a structurally equal Value, a null coming back as a bulk-typed
\* null marker.
C11_DecodeInvertsEncode ==
  (Len(records) = 1 /\ (pc \in {"accept", "down"} \/ (pc = "replay" /\ rd # NewReader)))
    => /\ replayed # <<>>
       /\ replayed[1] # ZeroValue
       /\ RoundTrips(records[1], replayed[1])

(***************************************************************************)
(* The startup of a process on a file whose bytes are not whole records:   *)
(* a log cut short, or a length line that is not well formed.              *)
(***************************************************************************)
\* SET a b, HSET a a b
CutLog ==
  <<Command(NameSET, <<BulkValue(TokA), BulkValue(TokB)>>),
    Command(NameHSET, <<BulkValue(TokA), BulkValue(TokA), BulkValue(TokB)>>)>>

\* every prefix of the bytes of CutLog
CutFiles == {SubSeq(MarshalAll(CutLog), 1, n) : n \in 0..Len(MarshalAll(CutLog))}

\* "*1\rX$1\r\na\r\n", "$1\rXa\r\n", "*1\r\r$1\r\na\r\n": CR, then a byte that
\* is not LF
\* "*x\r\n", "$\r\n", "*1x\r\n$1\r\na\r\n", "$ 1\r\na\r\n": not a decimal integer
\* "*1\r\n$1\r\na\r\n", "$1\r\na\r\n": well formed
LengthFiles ==
  {<<42, 49, 13, 88, 36, 49, 13, 10, 97, 13, 10>>,
   <<36, 49, 13, 88, 97, 13, 10>>,
   <<42, 49, 13, 13, 36, 49, 13, 10, 97, 13, 10>>,
   <<42, 120, 13, 10>>,
   <<36, 13, 10>>,
   <<42, 49, 120, 13, 10, 36, 49, 13, 10, 97, 13, 10>>,
   <<36, 32, 49, 13, 10, 97, 13, 10>>,
   <<42, 49, 13, 10, 36, 49, 13, 10, 97, 13, 10>>,
   <<36, 49, 13, 10, 97, 13, 10>>}

\* "*9223372036854775808\r\n", "$-9223372036854775809\r\n": outside int64
\* "$9223372036854775807\r\n": a length above maxAlloc
\* "$4294967296\r\na\r\n", "*4294967296\r\n$1\r\na\r\n", "*-4294967296\r\n":
\* lengths within int64 that the integers of the model do not hold
\* "$00000000000000000001\r\na\r\n": leading zeros
WideBulkFile == <<36, 52, 50, 57, 52, 57, 54, 55, 50, 57, 54, 13, 10, 97, 13, 10>>

WideFiles ==
  {<<42, 57, 50, 50, 51, 51, 55, 50, 48, 51, 54, 56, 53, 52, 55, 55, 53, 56,
     48, 56, 13, 10>>,
   <<36, 45, 57, 50, 50, 51, 51, 55, 50, 48, 51, 54, 56, 53, 52, 55, 55, 53,
     56, 48, 57, 13, 10>>,
   <<36, 57, 50, 50, 51, 51, 55, 50, 48, 51, 54, 56, 53, 52, 55, 55, 53, 56,
     48, 55, 13, 10>>,
   WideBulkFile,
   <<42, 52, 50, 57, 52, 57, 54, 55, 50, 57, 54, 13, 10, 36, 49, 13, 10, 97,
     13, 10>>,
   <<42, 45, 52, 50, 57, 52, 57, 54, 55, 50, 57, 54, 13, 10>>,
   <<36, 48, 48, 48, 48, 48, 48, 48, 48, 48, 48, 48, 48, 48, 48, 48, 48, 48,
     48, 48, 49, 13, 10, 97, 13, 10>>}

RawFiles == CutFiles \cup LengthFiles \cup WideFiles

\* the file is one of the files, of which no history is known, main (or the
\* caller of NewAof) is at the place at, the goroutines are ts, and mems is
\* what the memory of the machine may be (of no account where no input
\* holds a length of 2 GiB and more)
InitProcess(files, at, ts, mems) ==
  /\ mem \in mems
  /\ SETs = EmptyMap
  /\ HSETs = EmptyMap
  /\ records = <<>>
  /\ file \in files
  /\ off = 0
  /\ pc = at
  /\ rd = NewReader
  /\ out = <<>>
  /\ client = "idle"
  /\ req = ZeroValue
  /\ res = ZeroValue
  /\ pre = [S |-> EmptyMap, H |-> EmptyMap]
  /\ replayed = <<>>
  /\ shut = NoMaps
  /\ lastSet = EmptyMap
  /\ lastHset = EmptyMap
  /\ appended = 0
  /\ readRet = ""
  /\ decErr = ""
  /\ unsupported = FALSE
  /\ tasks = ts
  /\ locks = NoLocks
  /\ closed = FALSE
  /\ conn = NoConn

InitFileAt(files, at) == InitProcess(files, at, NoTasks, BOOLEAN)

\* the process starts on one of the files
InitFile(files) == InitFileAt(files, "replay")

InitRaw == InitFile(RawFiles)

SpecRaw == InitRaw /\ [][NextReplay]_vars

\* the first decode of the file is over
FirstDecodeDone == pc \in {"accept", "down"} \/ (pc = "replay" /\ rd # NewReader)

\* the index of the first CR of f, 0 when it has none
FirstCR(f) ==
  IF \E i \in 1..Len(f) : f[i] = 13
  THEN CHOOSE i \in 1..Len(f) : f[i] = 13 /\ \A j \in 1..(i - 1) : f[j] # 13
  ELSE 0

\* s is a decimal integer: an optional sign and one digit or more
IsDecimal(s) ==
  /\ Len(s) >= 1
  /\ \/ (\A i \in 1..Len(s) : s[i] \in 48..57)
     \/ (Len(s) >= 2 /\ s[1] \in {43, 45} /\ \A i \in 2..Len(s) : s[i] \in 48..57)

\* f begins with '*' or '$' and a length line that ends with CR and one more
\* byte, and the line is not a decimal integer followed by CR LF
BadLengthLine(f) ==
  /\ Len(f) >= 1
  /\ f[1] \in {42, 36}
  /\ FirstCR(f) > 0
  /\ FirstCR(f) < Len(f)
  /\ \/ f[FirstCR(f) + 1] # 10
     \/ ~IsDecimal(SubSeq(f, 2, FirstCR(f) - 1))

\* C12: decoding a length field fails with an error whenever the line is not
\* terminated by exactly CR followed by LF or the text before the terminator
\* is not a decimal integer; in neither case does decode return a Value.
C12_BadLengthLineIsAnError ==
  (BadLengthLine(file) /\ FirstDecodeDone)
    => /\ replayed = <<>>
       /\ decErr \notin {"", "panic"}

\* b is a prefix of f
IsPrefix(b, f) == Len(b) <= Len(f) /\ SubSeq(f, 1, Len(b)) = b

\* C17: Replay returns success exactly when decoding reaches end-of-stream
\* at a record boundary and returns the decoder's error for any other decode
\* failure; the callback is not invoked after a decode error, and never with
\* a Value that was not fully decoded from the bytes of the log.
C17_ReplaySucceedsAtBoundaryOnly ==
  /\ IsPrefix(MarshalAll(replayed), file)
  /\ pc = "accept"
       => /\ decErr # ""
          /\ (readRet = "nil") <=> (decErr = "EOF" /\ MarshalAll(replayed) = file)
          /\ readRet # "nil" => readRet = decErr

\* the handler run on the maps that its first run on S and H left
Again(first, second) ==
  /\ first.res = StringValue(StrOK)
  /\ second = first

\* C13: SET and HSET are idempotent: from every store state, executing SET k
\* v twice leaves both namespaces as executing it once does, and so does
\* executing HSET h f v twice; each execution returns OK.
C13_SetHsetIdempotent ==
  /\ \A a \in ArgsOf(2) :
       Again(set(a, SETs, HSETs),
             set(a, set(a, SETs, HSETs).S, set(a, SETs, HSETs).H))
  /\ \A a \in ArgsOf(3) :
       Again(hset(a, SETs, HSETs),
             hset(a, hset(a, SETs, HSETs).S, hset(a, SETs, HSETs).H))
  /\ (/\ Called(NameSET) /\ Len(ReqArgs) = 2
      /\ ReqArgs[1].bulk \in DOMAIN pre.S
      /\ pre.S[ReqArgs[1].bulk] = ReqArgs[2].bulk)
       => (res = StringValue(StrOK) /\ SETs = pre.S /\ HSETs = pre.H)
  /\ (/\ Called(NameHSET) /\ Len(ReqArgs) = 3
      /\ ReqArgs[1].bulk \in DOMAIN pre.H
      /\ ReqArgs[2].bulk \in DOMAIN pre.H[ReqArgs[1].bulk]
      /\ pre.H[ReqArgs[1].bulk][ReqArgs[2].bulk] = ReqArgs[3].bulk)
       => (res = StringValue(StrOK) /\ SETs = pre.S /\ HSETs = pre.H)

\* main has run HSET h f v on a store in which an earlier HSET h f v had put
\* the same value
C13_Witness ==
  /\ Called(NameHSET)
  /\ Len(ReqArgs) = 3
  /\ Len(records) = 2
  /\ records[1] = req
  /\ ReqArgs[1].bulk \in DOMAIN pre.H
  /\ ReqArgs[2].bulk \in DOMAIN pre.H[ReqArgs[1].bulk]
  /\ pre.H[ReqArgs[1].bulk][ReqArgs[2].bulk] = ReqArgs[3].bulk
  /\ res = StringValue(StrOK)
  /\ HSETs = pre.H

\* this step is main handling a request whose command is not registered
UnknownCommandStep ==
  /\ client = "idle"
  /\ client' = "got"
  /\ pc = "serve"
  /\ req'.typ = "array"
  /\ Len(req'.array) >= 1
  /\ ToUpper(req'.array[1].bulk)
       \notin {NamePING, NameSET, NameGET, NameHSET, NameHGET, NameHGETALL, NameDEL}

\* C16: a request whose upper-cased command name is not in the registry gets
\* exactly one response, an empty SimpleString ("+\r\n"), leaves both
\* namespaces and the log unchanged, and main stays in its loop for the
\* client's next command.
C16_UnknownCommandEmptyReply ==
  [][UnknownCommandStep
       => /\ res' = StringValue(<<>>)
          /\ out' = out \o <<43, 13, 10>>
          /\ SETs' = SETs
          /\ HSETs' = HSETs
          /\ file' = file
          /\ off' = off
          /\ pc' = "serve"]_vars

\* the client holds the answer to FOO; the store and the log are not empty
C16_Witness ==
  /\ client = "got"
  /\ pc = "serve"
  /\ req.typ = "array"
  /\ Len(req.array) >= 1
  /\ req.array[1].bulk = NameFOO
  /\ res = StringValue(<<>>)
  /\ out = <<43, 13, 10>>
  /\ DOMAIN SETs # {}
  /\ Len(file) > 0

(***************************************************************************)
(* A client that sends, besides requests, bytes that are no request.       *)
(***************************************************************************)
WireRequests ==
  {Command(NameSET, <<BulkValue(TokA), BulkValue(v)>>) : v \in Tokens}
    \cup {Command(NameGET, <<BulkValue(TokA)>>),
          Command(NameDEL, <<BulkValue(TokA)>>),
          Command(NamePING, <<>>)}

\* "+PING\r\n", ":1\r\n", "a", "*1\r\n+a\r\n": a type byte Read has no case for
\* "$1\r\na\r\n": a bulk string outside an array
WireJunk ==
  {<<43, 80, 73, 78, 71, 13, 10>>,
   <<58, 49, 13, 10>>,
   <<97>>,
   <<42, 49, 13, 10, 43, 97, 13, 10>>,
   <<36, 49, 13, 10, 97, 13, 10>>}

WireArrivals == {Marshal(v) : v \in WireRequests} \cup WireJunk

\* main: one turn of the serving loop, on bytes that may be no request
ServeRaw ==
  /\ pc = "serve"
  /\ client = "idle"
  /\ \E data \in WireArrivals : ServeValue(Read(data, NewReader))
  /\ UNCHANGED <<rd, replayed, shut, readRet, decErr>>
  /\ closed' = (pc' = "down")
  /\ UNCHANGED <<tasks, locks, conn, mem>>

NextWire == ReplayStep \/ Accept \/ ServeRaw \/ ClientRecv

SpecWire == Init /\ [][NextWire]_vars

\* this step is main calling a registered handler for a request
HandlerStep ==
  /\ client = "idle"
  /\ client' = "got"
  /\ pc = "serve"
  /\ req'.typ = "array"
  /\ Len(req'.array) >= 1
  /\ ToUpper(req'.array[1].bulk) \in Handlers

\* C18: once decode has met a type byte other than '*' or '$' on the
\* connection, no command read from the connection after it is dispatched to
\* a handler.
C18_NoDispatchAfterUnsupported ==
  [][unsupported => ~HandlerStep]_vars

(***************************************************************************)
(* The handlers called by several goroutines at once.  A goroutine takes   *)
(* one step for each lock operation and for each access to a map; its      *)
(* place is the line of handler.go it is about to execute.                 *)
(***************************************************************************)

\* a goroutine that is in no handler
IdleTask ==
  [at |-> "idle", cmd |-> <<>>, args |-> <<>>, caller |-> "", ret |-> ZeroValue,
   ok |-> FALSE,       \* get, hget, hgetall: the local ok
   val |-> <<>>,       \* get, hget: the local value
   alias |-> FALSE,    \* hgetall: the local value is the map HSETs[hash] holds
   snap |-> EmptyMap,  \* hgetall: the local value, once del has taken it out of HSETs
   values |-> <<>>,    \* hgetall: the local values
   visited |-> {},     \* hgetall: the fields range has visited
   fresh |-> {},       \* hgetall: the fields inserted while range was running
   seen |-> {}]        \* history: what the call reads, as the maps held it at
                       \* each instant since the call began

\* everything but the maps, the goroutines and the locks
rest == <<file, off, pc, rd, out, client, req, res, pre, records, replayed, shut,
          lastSet, lastHset, appended, readRet, decErr, unsupported, closed, conn,
          mem>>

\* sync.RWMutex: Lock waits for the writer and the readers, RLock for the writer
CanLock(l) == l.w = 0 /\ l.r = {}
CanRLock(l) == l.w = 0

\* what the call of tk reads, as the maps S and H hold it: the key of a get,
\* the hash of an hgetall
ObsOf(tk, S, H) ==
  IF tk.cmd = NameGET
  THEN [has |-> tk.args[1].bulk \in DOMAIN S,
        v |-> IF tk.args[1].bulk \in DOMAIN S THEN S[tk.args[1].bulk] ELSE <<>>,
        m |-> EmptyMap]
  ELSE IF tk.cmd = NameHGETALL
  THEN [has |-> tk.args[1].bulk \in DOMAIN H,
        v |-> <<>>,
        m |-> IF tk.args[1].bulk \in DOMAIN H THEN H[tk.args[1].bulk] ELSE EmptyMap]
  ELSE [has |-> FALSE, v |-> <<>>, m |-> EmptyMap]

\* tk after a step that turned the hash store from Hold into H and the string
\* store into S: a map that del removed stays with the hgetall that holds it,
\* fields inserted under a running range are noted, the history grows
Detached(tk, Hold, H) ==
  IF tk.alias /\ tk.args[1].bulk \notin DOMAIN H
  THEN [tk EXCEPT !.alias = FALSE, !.snap = Hold[tk.args[1].bulk]]
  ELSE tk

Inserted(tk, Hold, H) ==
  IF tk.alias /\ tk.at = "hgetall.191" /\ tk.args[1].bulk \in DOMAIN H
  THEN [tk EXCEPT !.fresh = @ \cup (DOMAIN H[tk.args[1].bulk]
                                      \ DOMAIN Hold[tk.args[1].bulk])]
  ELSE tk

Watched(tk, S, H) ==
  IF tk.at \in {"idle", "done", "fatal"} THEN tk
  ELSE [tk EXCEPT !.seen = @ \cup {ObsOf(tk, S, H)}]

After(tk, S, Hold, H) == Watched(Inserted(Detached(tk, Hold, H), Hold, H), S, H)

\* the process has not died of a fatal error
\* nor ended with main's return
Running == \A t \in DOMAIN tasks : tasks[t].at \notin {"fatal", "exit"}

\* goroutine t moves to tk; the maps stay
Move(t, tk) ==
  /\ Running
  /\ tasks' = [tasks EXCEPT ![t] = tk]
  /\ UNCHANGED <<SETs, HSETs>>
  /\ UNCHANGED rest

\* goroutine t moves to tk in a step that writes the maps
MoveWriting(t, tk) ==
  /\ Running
  /\ tasks' = [u \in DOMAIN tasks |->
                 After(IF u = t THEN tk ELSE tasks[u], SETs', HSETs, HSETs')]
  /\ UNCHANGED rest

\* the first line of the handler of cmd that takes a lock
FirstLock(cmd) ==
  CASE cmd = NameSET -> "set.65"
    [] cmd = NameGET -> "get.86"
    [] cmd = NameHSET -> "hset.125"
    [] cmd = NameHGET -> "hget.152"
    [] cmd = NameHGETALL -> "hgetall.178"
    [] cmd = NameDEL -> "del.207"
    [] OTHER -> "done"

\* what the handler of cmd returns before it takes any lock: ping's answer,
\* or the error for a wrong number of arguments
EarlyReturn(cmd, args) ==
  (CHOOSE o \in CallHandler(cmd, args, EmptyMap, EmptyMap) : TRUE).res

ReturnsEarly(cmd, args) ==
  cmd = NamePING \/ EarlyReturn(cmd, args).typ = "error"

\* the goroutine as it enters Handlers[cmd](args)
Entered(cmd, args, caller, S, H) ==
  Watched([IdleTask EXCEPT
             !.at = IF ReturnsEarly(cmd, args) THEN "done" ELSE FirstLock(cmd),
             !.cmd = cmd, !.args = args, !.caller = caller,
             !.ret = IF ReturnsEarly(cmd, args) THEN EarlyReturn(cmd, args)
                     ELSE ZeroValue],
          S, H)

\* ---- set, lines 65-70
\* set going on without the lock
set_NoLock(t) ==
  /\ tasks[t].at = "set.65"
  /\ UNCHANGED locks
  /\ Move(t, [tasks[t] EXCEPT !.at = "set.66"])

set_Lock(t) ==
  /\ tasks[t].at = "set.65"
  /\ CanLock(locks.SETsMu)
  /\ locks' = [locks EXCEPT !.SETsMu.w = t]
  /\ Move(t, [tasks[t] EXCEPT !.at = "set.66"])

set_Store(t) ==
  /\ tasks[t].at = "set.66"
  /\ SETs' = set(tasks[t].args, SETs, HSETs).S
  /\ UNCHANGED <<HSETs, locks>>
  /\ MoveWriting(t, [tasks[t] EXCEPT !.at = "set.67"])

set_Unlock(t) ==
  /\ tasks[t].at = "set.67"
  /\ locks' = [locks EXCEPT !.SETsMu.w = 0]
  /\ Move(t, [tasks[t] EXCEPT !.at = "done", !.ret = StringValue(StrOK)])

\* ---- get, lines 86-97
get_RLock(t) ==
  /\ tasks[t].at = "get.86"
  /\ CanRLock(locks.SETsMu)
  /\ locks' = [locks EXCEPT !.SETsMu.r = @ \cup {t}]
  /\ Move(t, [tasks[t] EXCEPT !.at = "get.87"])

get_Load(t) ==
  /\ tasks[t].at = "get.87"
  /\ UNCHANGED locks
  /\ Move(t, [tasks[t] EXCEPT
                !.at = "get.88",
                !.ok = tasks[t].args[1].bulk \in DOMAIN SETs,
                !.val = IF tasks[t].args[1].bulk \in DOMAIN SETs
                        THEN SETs[tasks[t].args[1].bulk] ELSE <<>>])

get_RUnlock(t) ==
  /\ tasks[t].at = "get.88"
  /\ locks' = [locks EXCEPT !.SETsMu.r = @ \ {t}]
  /\ Move(t, [tasks[t] EXCEPT
                !.at = "done",
                !.ret = IF ~tasks[t].ok THEN NullValue ELSE BulkValue(tasks[t].val)])

\* ---- hset, lines 125-135
hset_Lock(t) ==
  /\ tasks[t].at = "hset.125"
  /\ CanLock(locks.HSETsMu)
  /\ locks' = [locks EXCEPT !.HSETsMu.w = t]
  /\ Move(t, [tasks[t] EXCEPT !.at = "hset.127"])

hset_Store(t) ==
  /\ tasks[t].at = "hset.127"
  /\ HSETs' = hset(tasks[t].args, SETs, HSETs).H
  /\ UNCHANGED <<SETs, locks>>
  /\ MoveWriting(t, [tasks[t] EXCEPT !.at = "hset.132"])

hset_Unlock(t) ==
  /\ tasks[t].at = "hset.132"
  /\ locks' = [locks EXCEPT !.HSETsMu.w = 0]
  /\ Move(t, [tasks[t] EXCEPT !.at = "done", !.ret = StringValue(StrOK)])

\* ---- hget, lines 152-162
hget_RLock(t) ==
  /\ tasks[t].at = "hget.152"
  /\ CanRLock(locks.HSETsMu)
  /\ locks' = [locks EXCEPT !.HSETsMu.r = @ \cup {t}]
  /\ Move(t, [tasks[t] EXCEPT !.at = "hget.153"])

hget_Load(t) ==
  /\ tasks[t].at = "hget.153"
  /\ UNCHANGED locks
  /\ Move(t, [tasks[t] EXCEPT
                !.at = "hget.154",
                !.ok = hget(tasks[t].args, SETs, HSETs).res.typ = "bulk",
                !.val = hget(tasks[t].args, SETs, HSETs).res.bulk])

hget_RUnlock(t) ==
  /\ tasks[t].at = "hget.154"
  /\ locks' = [locks EXCEPT !.HSETsMu.r = @ \ {t}]
  /\ Move(t, [tasks[t] EXCEPT
                !.at = "done",
                !.ret = IF ~tasks[t].ok THEN NullValue ELSE BulkValue(tasks[t].val)])

\* ---- hgetall, lines 178-199
hgetall_RLock(t) ==
  /\ tasks[t].at = "hgetall.178"
  /\ CanRLock(locks.HSETsMu)
  /\ locks' = [locks EXCEPT !.HSETsMu.r = @ \cup {t}]
  /\ Move(t, [tasks[t] EXCEPT !.at = "hgetall.179"])

\* value, ok := HSETs[hash]: value is the map itself, not a copy
hgetall_Load(t) ==
  /\ tasks[t].at = "hgetall.179"
  /\ UNCHANGED locks
  /\ Move(t, [tasks[t] EXCEPT
                !.at = "hgetall.180",
                !.ok = tasks[t].args[1].bulk \in DOMAIN HSETs,
                !.alias = tasks[t].args[1].bulk \in DOMAIN HSETs])

hgetall_RUnlock(t) ==
  /\ tasks[t].at = "hgetall.180"
  /\ locks' = [locks EXCEPT !.HSETsMu.r = @ \ {t}]
  /\ Move(t, IF ~tasks[t].ok
             THEN [tasks[t] EXCEPT !.at = "done", !.ret = NullValue]
             ELSE [tasks[t] EXCEPT !.at = "hgetall.191"])

\* the map the local value of hgetall refers to
ValueOf(tk, H) == IF tk.alias THEN H[tk.args[1].bulk] ELSE tk.snap

\* range: one more field of the map, with the value it holds now
hgetall_Range(t) ==
  /\ tasks[t].at = "hgetall.191"
  /\ UNCHANGED locks
  /\ \E k \in DOMAIN ValueOf(tasks[t], HSETs) \ tasks[t].visited :
       Move(t, [tasks[t] EXCEPT
                  !.visited = @ \cup {k},
                  !.values = @ \o <<BulkValue(k),
                                    BulkValue(ValueOf(tasks[t], HSETs)[k])>>])

\* range ends: it has visited every field, but for fields inserted while it
\* ran, which it may leave out
hgetall_Return(t) ==
  /\ tasks[t].at = "hgetall.191"
  /\ (DOMAIN ValueOf(tasks[t], HSETs) \ tasks[t].visited) \subseteq tasks[t].fresh
  /\ UNCHANGED locks
  /\ Move(t, [tasks[t] EXCEPT !.at = "done", !.ret = ArrayValue(tasks[t].values),
                              !.alias = FALSE])

\* ---- del, lines 207-230
del_LockSETs(t) ==
  /\ tasks[t].at = "del.207"
  /\ CanLock(locks.SETsMu)
  /\ locks' = [locks EXCEPT !.SETsMu.w = t]
  /\ Move(t, [tasks[t] EXCEPT !.at = "del.208"])

del_LockHSETs(t) ==
  /\ tasks[t].at = "del.208"
  /\ CanLock(locks.HSETsMu)
  /\ locks' = [locks EXCEPT !.HSETsMu.w = t]
  /\ Move(t, [tasks[t] EXCEPT !.at = "del.211"])

\* the loop over the arguments, run under both locks
del_Loop(t) ==
  /\ tasks[t].at = "del.211"
  /\ SETs' = del(tasks[t].args, SETs, HSETs).S
  /\ HSETs' = del(tasks[t].args, SETs, HSETs).H
  /\ UNCHANGED locks
  /\ MoveWriting(t, [tasks[t] EXCEPT !.at = "del.210",
                                     !.ret = del(tasks[t].args, SETs, HSETs).res])

\* the deferred calls run last in, first out: HSETsMu.Unlock, then SETsMu.Unlock
del_UnlockHSETs(t) ==
  /\ tasks[t].at = "del.210"
  /\ locks' = [locks EXCEPT !.HSETsMu.w = 0]
  /\ Move(t, [tasks[t] EXCEPT !.at = "del.209"])

del_UnlockSETs(t) ==
  /\ tasks[t].at = "del.209"
  /\ locks' = [locks EXCEPT !.SETsMu.w = 0]
  /\ Move(t, [tasks[t] EXCEPT !.at = "done"])

\* the runtime finds hset writing the map that the range of an hgetall is
\* reading: fatal error, concurrent map iteration and map write
MapRaceFatal ==
  /\ \E t \in DOMAIN tasks, u \in DOMAIN tasks :
       /\ tasks[t].at = "hgetall.191"
       /\ tasks[t].alias
       /\ tasks[u].at = "hset.127"
       /\ tasks[u].args[1].bulk = tasks[t].args[1].bulk
  /\ tasks' = [t \in DOMAIN tasks |-> [tasks[t] EXCEPT !.at = "fatal"]]
  /\ UNCHANGED <<SETs, HSETs, locks>>
  /\ UNCHANGED rest

\* goroutine t calls one of the handlers
Call(t, calls) ==
  /\ tasks[t].at = "idle"
  /\ \E c \in calls : Move(t, Entered(c.cmd, c.args, "client", SETs, HSETs))
  /\ UNCHANGED locks

\* the handler has returned to its caller
Return(t) ==
  /\ tasks[t].at = "done"
  /\ tasks[t].caller = "client"
  /\ Move(t, IdleTask)
  /\ UNCHANGED locks

\* the goroutines are in no handler, the maps are S and H, and main has
\* replayed an empty log
InitTasks(ids, stores) ==
  /\ \E st \in stores : SETs = st.S /\ HSETs = st.H
  /\ records = <<>>
  /\ file = <<>>
  /\ off = 0
  /\ pc = "serve"
  /\ rd = NewReader
  /\ out = <<>>
  /\ client = "idle"
  /\ req = ZeroValue
  /\ res = ZeroValue
  /\ pre = [S |-> EmptyMap, H |-> EmptyMap]
  /\ replayed = <<>>
  /\ shut = NoMaps
  /\ lastSet = EmptyMap
  /\ lastHset = EmptyMap
  /\ appended = 0
  /\ readRet = "nil"
  /\ decErr = "EOF"
  /\ unsupported = FALSE
  /\ tasks = [t \in ids |-> IdleTask]
  /\ locks = NoLocks
  /\ closed = FALSE
  /\ mem = FALSE
  /\ conn = NoConn

(***************************************************************************)
(* Goroutines that call set, get and del side by side, as the goroutines   *)
(* of several connections would.                                           *)
(***************************************************************************)
ScalarTasks == {1, 2, 3}

\* SET a a, SET a b, GET a, DEL a
ScalarCalls ==
  {[cmd |-> NameSET, args |-> <<BulkValue(TokA), BulkValue(v)>>] : v \in Tokens}
    \cup {[cmd |-> c, args |-> <<BulkValue(TokA)>>] : c \in {NameGET, NameDEL}}

ScalarStores == {[S |-> EmptyMap, H |-> EmptyMap]}

InitScalar == InitTasks(ScalarTasks, ScalarStores)

CallScalar(t) == Call(t, ScalarCalls)

NextScalar ==
  \E t \in ScalarTasks :
    \/ CallScalar(t) \/ Return(t)
    \/ set_Lock(t) \/ set_Store(t) \/ set_Unlock(t)
    \/ get_RLock(t) \/ get_Load(t) \/ get_RUnlock(t)
    \/ del_LockSETs(t) \/ del_LockHSETs(t) \/ del_Loop(t)
    \/ del_UnlockHSETs(t) \/ del_UnlockSETs(t)

SpecScalar == InitScalar /\ [][NextScalar]_vars

(***************************************************************************)
(* Goroutines that call hset, hget, hgetall and del side by side.          *)
(***************************************************************************)
HashTasks == {1, 2}

\* HSET a a b, HSET a b b, HGET a a, HGETALL a, DEL a
HashCalls ==
  {[cmd |-> NameHSET, args |-> <<BulkValue(TokA), BulkValue(f), BulkValue(TokB)>>] :
     f \in Tokens}
    \cup {[cmd |-> c, args |-> <<BulkValue(TokA)>>] : c \in {NameHGETALL, NameDEL}}
    \cup {[cmd |-> NameHGET, args |-> <<BulkValue(TokA), BulkValue(TokA)>>]}

\* no hash, or the hash a with the fields a and b both holding "a"
HashStores ==
  {[S |-> EmptyMap, H |-> EmptyMap],
   [S |-> EmptyMap,
    H |-> MapPut(EmptyMap, TokA, MapPut(MapPut(EmptyMap, TokA, TokA), TokB, TokA))]}

InitHash == InitTasks(HashTasks, HashStores)

CallHash(t) == Call(t, HashCalls)

NextHash ==
  \/ \E t \in HashTasks :
       \/ CallHash(t) \/ Return(t)
       \/ hset_Lock(t) \/ hset_Store(t) \/ hset_Unlock(t)
       \/ hget_RLock(t) \/ hget_Load(t) \/ hget_RUnlock(t)
       \/ hgetall_RLock(t) \/ hgetall_Load(t) \/ hgetall_RUnlock(t)
       \/ hgetall_Range(t) \/ hgetall_Return(t)
       \/ del_LockSETs(t) \/ del_LockHSETs(t) \/ del_Loop(t)
       \/ del_UnlockHSETs(t) \/ del_UnlockSETs(t)
  \/ MapRaceFatal

SpecHash == InitHash /\ [][NextHash]_vars

(***************************************************************************)
(* Properties of the handlers under concurrent callers.                    *)
(***************************************************************************)
\* goroutine t is about to write the map SETs / about to read it
WritesSETs(t) == tasks[t].at \in {"set.66", "del.211"}
ReadsSETs(t) == tasks[t].at = "get.87"

\* the answer of a get that read the observation o
GetAnswer(o) == IF o.has THEN BulkValue(o.v) ELSE NullValue

\* get has returned to goroutine t
GetDone(t) == tasks[t].at = "done" /\ tasks[t].cmd = NameGET

\* C14: operations on the scalar namespace are linearizable under any
\* interleaving of concurrent SET, GET and DEL callers: no goroutine accesses
\* the map while another writes it, the map only ever holds values that some
\* SET wrote in full, each GET returns what the key held at one instant
\* between its call and its return (Null when it held nothing), and GETs of
\* a key that no one wrote during their calls return the same value.
C14_ScalarOpsLinearizable ==
  /\ \A t \in DOMAIN tasks, u \in DOMAIN tasks :
       (t # u /\ WritesSETs(t)) => ~(WritesSETs(u) \/ ReadsSETs(u))
  /\ \A k \in DOMAIN SETs : SETs[k] \in Tokens
  /\ \A t \in DOMAIN tasks :
       GetDone(t) => \E o \in tasks[t].seen : tasks[t].ret = GetAnswer(o)
  /\ \A t \in DOMAIN tasks, u \in DOMAIN tasks :
       (/\ GetDone(t) /\ GetDone(u)
        /\ tasks[t].args = tasks[u].args
        /\ Cardinality(tasks[t].seen) = 1
        /\ tasks[t].seen = tasks[u].seen)
         => tasks[t].ret = tasks[u].ret

\* a GET has returned "b" after the key went from "a" to "b" during its
\* call, while another goroutine holds the write lock inside set
C14_Witness ==
  \E t \in DOMAIN tasks, u \in DOMAIN tasks :
    /\ GetDone(t)
    /\ tasks[t].ret = BulkValue(TokB)
    /\ Cardinality(tasks[t].seen) >= 2
    /\ tasks[u].cmd = NameSET
    /\ tasks[u].at = "set.66"
    /\ locks.SETsMu.w = u

\* goroutine t holds the lock l, as writer or as reader
Holds(l, t) == l.w = t \/ t \in l.r

\* goroutine t is inside the handler of one of the commands cmds
Inside(t, cmds) == tasks[t].cmd \in cmds /\ tasks[t].at \notin {"idle", "done"}

\* C15: a write operation on the scalar namespace (SET, or DEL of a key)
\* never holds or waits for the lock of the hash namespace, so it never makes
\* a concurrent HSET, HGET or HGETALL wait; and no hash operation holds or
\* waits for the lock of the scalar namespace.
C15_NamespaceLocksIndependent ==
  \A t \in DOMAIN tasks :
    /\ Inside(t, {NameSET, NameDEL})
         => (~Holds(locks.HSETsMu, t) /\ tasks[t].at # "del.208")
    /\ Inside(t, {NameHSET, NameHGET, NameHGETALL})
         => ~Holds(locks.SETsMu, t)

\* the array arr pairs each field of the map m, once, with its value
PairsOf(arr, m) ==
  /\ Len(arr) = 2 * Cardinality(DOMAIN m)
  /\ \A f \in DOMAIN m :
       \E i \in 1..Len(arr) :
         i % 2 = 1 /\ arr[i].bulk = f /\ arr[i + 1].bulk = m[f]

\* C20: every HGETALL h result is a snapshot of hash h at one instant
\* between the call's start and its return, also when HSET calls on h run
\* concurrently: the field map is never read by HGETALL while an HSET is
\* writing it, and the pairs returned are those of one such instant.
C20_HgetallReturnsSnapshot ==
  /\ \A t \in DOMAIN tasks : tasks[t].at # "fatal"
  /\ \A t \in DOMAIN tasks, u \in DOMAIN tasks :
       (tasks[t].at = "hgetall.191" /\ tasks[t].alias)
         => ~(tasks[u].at = "hset.127" /\ tasks[u].args[1] = tasks[t].args[1])
  /\ \A t \in DOMAIN tasks :
       (tasks[t].at = "done" /\ tasks[t].cmd = NameHGETALL)
         => \E o \in tasks[t].seen :
              IF o.has THEN tasks[t].ret.typ = "array" /\ PairsOf(tasks[t].ret.array, o.m)
              ELSE tasks[t].ret = NullValue

(***************************************************************************)
(* The startup of the process, lock by lock: main runs aof.Read, whose     *)
(* callback runs the handlers, beside the goroutine NewAof started.        *)
(***************************************************************************)
MainTask == 1
SyncTask == 2

StartupLogs == LogsUpTo(1) \cup {ExampleLog}

InitStartup ==
  /\ SETs = EmptyMap
  /\ HSETs = EmptyMap
  /\ records \in StartupLogs
  /\ file = MarshalAll(records)
  /\ off = 0
  /\ pc = "replay"
  /\ rd = NewReader
  /\ out = <<>>
  /\ client = "idle"
  /\ req = ZeroValue
  /\ res = ZeroValue
  /\ pre = [S |-> EmptyMap, H |-> EmptyMap]
  /\ replayed = <<>>
  /\ shut = NoMaps
  /\ lastSet = EmptyMap
  /\ lastHset = EmptyMap
  /\ appended = 0
  /\ readRet = ""
  /\ decErr = ""
  /\ unsupported = FALSE
  /\ tasks = (MainTask :> [IdleTask EXCEPT !.at = "read.82"])
               @@ (SyncTask :> [IdleTask EXCEPT !.at = "sync.44"])
  /\ locks = NoLocks
  /\ closed = FALSE
  /\ mem = FALSE
  /\ conn = NoConn

\* what the steps of aof.Read leave alone
restOfRead == <<file, out, client, req, res, pre, records, shut, lastSet, lastHset,
                appended, unsupported, closed, conn, mem>>

\* aof.Read: aof.mu.Lock(), Seek, NewResp
read_Lock ==
  /\ Running
  /\ tasks[MainTask].at = "read.82"
  /\ locks.mu = 0
  /\ locks' = [locks EXCEPT !.mu = MainTask]
  /\ tasks' = [tasks EXCEPT ![MainTask].at = "read.94"]
  /\ off' = 0
  /\ rd' = NewReader
  /\ UNCHANGED <<SETs, HSETs, pc, replayed, readRet, decErr>>
  /\ UNCHANGED restOfRead

\* the callback: main's goroutine as it leaves fn(value) or enters a handler
CallbackTask(value, S, H) ==
  IF Len(value.array) = 0
  THEN \* value.array[0] panics: main unwinds to the deferred Unlock of aof.Read
       [IdleTask EXCEPT !.at = "read.83", !.caller = "panic"]
  ELSE IF ToUpper(value.array[1].bulk) \notin Handlers
  THEN [IdleTask EXCEPT !.at = "read.94"]
  ELSE Entered(ToUpper(value.array[1].bulk), Tail(value.array), "replay", S, H)

\* aof.Read, with e the outcome of reader.Read(): the error ends the loop,
\* the value goes to the callback
read_Value(e) ==
  IF e.err = "fatal"
  THEN \* reader.Read() dies of a fatal error: the process ends there, no
       \* deferred call runs
       /\ tasks' = [t \in DOMAIN tasks |-> [tasks[t] EXCEPT !.at = "fatal"]]
       /\ decErr' = e.err
       /\ UNCHANGED <<replayed, readRet, rd>>
  ELSE IF e.err = "panic"
  THEN \* reader.Read() panics: main unwinds to the deferred Unlock
       /\ tasks' = [tasks EXCEPT ![MainTask] =
                      [IdleTask EXCEPT !.at = "read.83", !.caller = "panic"]]
       /\ decErr' = e.err
       /\ UNCHANGED <<replayed, readRet, rd>>
  ELSE IF e.err # ""
  THEN /\ tasks' = [tasks EXCEPT ![MainTask].at = "read.83"]
       /\ decErr' = e.err
       /\ readRet' = IF e.err = "EOF" THEN "nil" ELSE e.err
       /\ UNCHANGED <<replayed, rd>>
  ELSE /\ tasks' = [tasks EXCEPT ![MainTask] = CallbackTask(e.v, SETs, HSETs)]
       /\ replayed' = Append(replayed, e.v)
       /\ decErr' = ""
       /\ rd' = e.rd
       /\ UNCHANGED readRet

read_Next ==
  /\ Running
  /\ tasks[MainTask].at = "read.94"
  /\ read_Value(Read(file, rd))
  /\ off' = Read(file, rd).rd.w
  /\ UNCHANGED <<SETs, HSETs, pc, locks>>
  /\ UNCHANGED restOfRead

\* the handler returns to the callback, the callback to the loop of aof.Read
read_CallbackReturn ==
  /\ tasks[MainTask].at = "done"
  /\ tasks[MainTask].caller = "replay"
  /\ Move(MainTask, [IdleTask EXCEPT !.at = "read.94"])
  /\ UNCHANGED locks

\* aof.Read returns, or the panic unwinds it: the deferred aof.mu.Unlock().
\* After a return main goes on to l.Accept; a panic goes on to the call that
\* main deferred, aof.Close()
read_Unlock ==
  /\ Running
  /\ tasks[MainTask].at = "read.83"
  /\ locks' = [locks EXCEPT !.mu = 0]
  /\ tasks' = [tasks EXCEPT ![MainTask].at =
                 IF tasks[MainTask].caller = "panic" THEN "close.57" ELSE "idle"]
  /\ pc' = IF tasks[MainTask].caller = "panic" THEN pc ELSE "accept"
  /\ rd' = NewReader
  /\ UNCHANGED <<SETs, HSETs, off, replayed, readRet, decErr>>
  /\ UNCHANGED restOfRead

\* the goroutine of NewAof: Lock, Sync, Unlock, Sleep
sync_Lock ==
  /\ tasks[SyncTask].at = "sync.44"
  /\ locks.mu = 0
  /\ locks' = [locks EXCEPT !.mu = SyncTask]
  /\ Move(SyncTask, [tasks[SyncTask] EXCEPT !.at = "sync.45"])

sync_Sync ==
  /\ tasks[SyncTask].at = "sync.45"
  /\ UNCHANGED locks
  /\ Move(SyncTask, [tasks[SyncTask] EXCEPT !.at = "sync.46"])

sync_Unlock ==
  /\ tasks[SyncTask].at = "sync.46"
  /\ locks' = [locks EXCEPT !.mu = 0]
  /\ Move(SyncTask, [tasks[SyncTask] EXCEPT !.at = "sync.47"])

sync_Sleep ==
  /\ tasks[SyncTask].at = "sync.47"
  /\ UNCHANGED locks
  /\ Move(SyncTask, [tasks[SyncTask] EXCEPT !.at = "sync.44"])

NextStartup ==
  \/ read_Lock \/ read_Next \/ read_CallbackReturn \/ read_Unlock
  \/ set_Lock(MainTask) \/ set_Store(MainTask) \/ set_Unlock(MainTask)
  \/ hset_Lock(MainTask) \/ hset_Store(MainTask) \/ hset_Unlock(MainTask)
  \/ sync_Lock \/ sync_Sync \/ sync_Unlock \/ sync_Sleep

SpecStartup == InitStartup /\ [][NextStartup]_vars

\* C19: no task ever holds the lock of the log and a namespace lock at the
\* same time, also during startup replay while the callback runs a handler.
C19_LogLockApartFromNamespaceLocks ==
  \A t \in DOMAIN tasks :
    locks.mu = t => (~Holds(locks.SETsMu, t) /\ ~Holds(locks.HSETsMu, t))

(***************************************************************************)
(* An Aof handle on its own: NewAof has opened the file, and the caller    *)
(* calls Read and Write in any order.                                      *)
(***************************************************************************)
\* "*x\r\n" and then BufSize bytes: the length line does not parse, and the
\* file is longer than one buffer of the reader
BadLongFile == <<42, 120, 13, 10>> \o [i \in 1..BufSize |-> 120]

HandleFiles ==
  {MarshalAll(l) : l \in LogsUpTo(1)} \cup {MarshalAll(CutLog), BadLongFile}

\* NewAof has returned: the file is open at offset 0
InitHandle == InitFileAt(HandleFiles, "open")

\* aof.Read up to its loop: Seek(0, io.SeekStart) and NewResp(aof.file)
aof_Read ==
  /\ pc \in {"open", "accept"}
  /\ pc' = "replay"
  /\ off' = 0
  /\ rd' = NewReader
  /\ replayed' = <<>>
  /\ readRet' = ""
  /\ decErr' = ""
  /\ UNCHANGED <<SETs, HSETs, file, out, client, req, res, pre, records, shut,
                 lastSet, lastHset, appended, unsupported>>
  /\ UNCHANGED conc

\* aof.Write(value)
aof_Write ==
  /\ pc \in {"open", "accept"}
  /\ appended < MaxLog
  /\ \E value \in LoggedRequests :
       /\ file' = FileWrite(file, off, Marshal(value))
       /\ off' = off + Len(Marshal(value))
       /\ records' = Append(records, value)
  /\ appended' = appended + 1
  /\ UNCHANGED <<SETs, HSETs, pc, rd, out, client, req, res, pre, replayed, shut,
                 lastSet, lastHset, readRet, decErr, unsupported>>
  /\ UNCHANGED conc

NextHandle == aof_Read \/ ReplayStep \/ aof_Write

SpecHandle == InitHandle /\ [][NextHandle]_vars

\* C21: aof.Write only ever extends the file: whenever a record is appended,
\* the bytes the file held before are all still there, unchanged, and the
\* record's bytes follow them immediately, whether the handle has replayed
\* the file or not and however the replay ended.
C21_AppendOnlyExtends ==
  [][appended' # appended =>
       file' = file \o Marshal(records'[Len(records')])]_vars

(***************************************************************************)
(* What main appends to the file, against what the handler answered.       *)
(***************************************************************************)
\* C22: every record of the log is a write command that its handler
\* accepted: whenever main appends a request to the file, the handler answers
\* that request with OK, so a SET or HSET answered with an arity error is not
\* in the log and the log has as many records as there were OK answers.
C22_LogHoldsAcceptedWritesOnly ==
  [][appended' # appended => res' = StringValue(StrOK)]_vars

(***************************************************************************)
(* The log lock by lock: main runs aof.Read, then aof.Write for the        *)
(* requests it serves, and aof.Close as it returns; a second goroutine     *)
(* calls aof.Write as the goroutine of another connection would; the       *)
(* goroutine of NewAof syncs.                                              *)
(***************************************************************************)
WriterTask == 3

\* what the callers of aof.Write append: SET a b, HSET a a b
LogWrites == {CutLog[1], CutLog[2]}

\* main is about to call aof.Read, the others have not begun
InitLog ==
  InitProcess({MarshalAll(l) : l \in StartupLogs} \cup {WideBulkFile}, "replay",
              (MainTask :> [IdleTask EXCEPT !.at = "read.82"])
                @@ (SyncTask :> [IdleTask EXCEPT !.at = "sync.44"])
                @@ (WriterTask :> IdleTask),
              BOOLEAN)

\* a goroutine that is in no call of aof calls aof.Write(value), with value
\* one of values
write_Call(t, values) ==
  /\ tasks[t].at = "idle"
  /\ appended < MaxLog
  /\ \E value \in values :
       Move(t, [IdleTask EXCEPT !.at = "write.66", !.caller = "log",
                                !.cmd = value.array[1].bulk,
                                !.args = Tail(value.array)])
  /\ UNCHANGED locks

\* aof.Write going on without the lock
write_NoLock(t) ==
  /\ tasks[t].at = "write.66"
  /\ UNCHANGED locks
  /\ Move(t, [tasks[t] EXCEPT !.at = "write.70"])

\* aof.mu.Lock()
write_Lock(t) ==
  /\ tasks[t].at = "write.66"
  /\ locks.mu = 0
  /\ locks' = [locks EXCEPT !.mu = t]
  /\ Move(t, [tasks[t] EXCEPT !.at = "write.70"])

\* the record goes to the file at its offset
FileAppend(value) ==
  /\ file' = FileWrite(file, off, Marshal(value))
  /\ off' = off + Len(Marshal(value))
  /\ records' = Append(records, value)
  /\ appended' = appended + 1

\* aof.file.Write(value.Marshal()); on a closed file it writes nothing and
\* returns an error
write_Write(t) ==
  /\ Running
  /\ tasks[t].at = "write.70"
  /\ IF closed THEN UNCHANGED <<file, off, records, appended>>
     ELSE FileAppend(Command(tasks[t].cmd, tasks[t].args))
  /\ tasks' = [tasks EXCEPT ![t].at = "write.67"]
  /\ UNCHANGED <<SETs, HSETs, pc, rd, out, client, req, res, pre, replayed, shut,
                 lastSet, lastHset, readRet, decErr, unsupported, locks, closed, conn,
                 mem>>

\* aof.Write returns: the deferred aof.mu.Unlock()
write_Unlock(t) ==
  /\ tasks[t].at = "write.67"
  /\ locks' = [locks EXCEPT !.mu = 0]
  /\ Move(t, IF tasks[t].caller = "serve"
             THEN \* main, line 178: the handler is called next
                  Entered(ToUpper(tasks[t].cmd), tasks[t].args, "serve", SETs, HSETs)
             ELSE IdleTask)

\* main returns from its loop: the deferred aof.Close() begins
close_Call ==
  /\ tasks[MainTask].at = "idle"
  /\ pc = "accept"
  /\ UNCHANGED locks
  /\ Move(MainTask, [IdleTask EXCEPT !.at = "close.57"])

\* aof.mu.Lock()
close_Lock ==
  /\ tasks[MainTask].at = "close.57"
  /\ locks.mu = 0
  /\ locks' = [locks EXCEPT !.mu = MainTask]
  /\ Move(MainTask, [tasks[MainTask] EXCEPT !.at = "close.60"])

\* aof.file.Close()
close_Close ==
  /\ Running
  /\ tasks[MainTask].at = "close.60"
  /\ closed' = TRUE
  /\ tasks' = [tasks EXCEPT ![MainTask].at = "close.58"]
  /\ UNCHANGED <<SETs, HSETs, file, off, pc, rd, out, client, req, res, pre,
                 appended, readRet, decErr, unsupported, locks, conn, mem>>
  /\ UNCHANGED hist

\* aof.Close returns: the deferred aof.mu.Unlock()
close_Unlock ==
  /\ tasks[MainTask].at = "close.58"
  /\ locks' = [locks EXCEPT !.mu = 0]
  /\ Move(MainTask, [tasks[MainTask] EXCEPT !.at = "main.181"])

\* main returns, or the panic reaches the top of its goroutine: the process
\* ends, and every goroutine with it
main_Exit ==
  /\ Running
  /\ tasks[MainTask].at = "main.181"
  /\ tasks' = [tasks EXCEPT ![MainTask].at = "exit"]
  /\ pc' = "down"
  /\ UNCHANGED <<SETs, HSETs, off, rd, replayed, readRet, decErr, locks>>
  /\ UNCHANGED restOfRead

NextLog ==
  \/ read_Lock \/ read_Next \/ read_CallbackReturn \/ read_Unlock
  \/ set_Lock(MainTask) \/ set_Store(MainTask) \/ set_Unlock(MainTask)
  \/ hset_Lock(MainTask) \/ hset_Store(MainTask) \/ hset_Unlock(MainTask)
  \/ write_Call(MainTask, LogWrites) \/ write_Lock(MainTask) \/ write_Write(MainTask)
  \/ write_Unlock(MainTask)
  \/ write_Call(WriterTask, LogWrites) \/ write_Lock(WriterTask) \/ write_Write(WriterTask)
  \/ write_Unlock(WriterTask)
  \/ close_Call \/ close_Lock \/ close_Close \/ close_Unlock \/ main_Exit
  \/ sync_Lock \/ sync_Sync \/ sync_Unlock \/ sync_Sleep

SpecLog == InitLog /\ [][NextLog]_vars

\* goroutine t is inside aof.Read, aof.Write, aof.Close or the sync of the
\* goroutine of NewAof, between the Lock and the Unlock
OnFile(t) ==
  \/ tasks[t].at \in {"read.94", "read.83", "write.70", "write.67",
                      "close.60", "close.58", "sync.45", "sync.46"}
  \/ tasks[t].caller = "replay"

\* C23: aof.Write, aof.Read, the periodic sync and aof.Close exclude each
\* other on the file: at most one goroutine is inside one of them at any
\* time, and it is the one that holds aof.mu; so no aof.Write runs while
\* another one or an aof.Read is under way.
C23_LogOperationsExcludeEachOther ==
  \A t, u \in DOMAIN tasks :
    OnFile(t) => (locks.mu = t /\ (OnFile(u) => u = t))

\* aof.Read has handed a record to the callback and holds the lock, while the
\* other goroutine waits in aof.Write and the sync goroutine waits to sync
C23_Witness ==
  /\ DOMAIN tasks = {MainTask, SyncTask, WriterTask}
  /\ tasks[MainTask].at = "read.94"
  /\ replayed # <<>>
  /\ locks.mu = MainTask
  /\ tasks[WriterTask].at = "write.66"
  /\ tasks[SyncTask].at = "sync.44"

(***************************************************************************)
(* What a write leaves alone.                                              *)
(***************************************************************************)
\* the map m is the map old but for the entry k, which holds v
OnlyEntryChanged(m, old, k, v) ==
  /\ DOMAIN m = DOMAIN old \cup {k}
  /\ m[k] = v
  /\ \A j \in DOMAIN old \ {k} : m[j] = old[j]

\* the fields the hash h holds in H
FieldsOf(H, h) == IF h \in DOMAIN H THEN H[h] ELSE EmptyMap

\* C24: the two namespaces are independent under writes: SET k v changes
\* only the entry of k in the string store and leaves the hash store and
\* every other key as they were; HSET h f v changes only the field f of the
\* hash h and leaves the string store, every other hash and every other
\* field of h as they were, also when the name is a key of both stores.
C24_WritesTouchOneEntry ==
  /\ (Called(NameSET) /\ Len(ReqArgs) = 2)
       => /\ HSETs = pre.H
          /\ OnlyEntryChanged(SETs, pre.S, ReqArgs[1].bulk, ReqArgs[2].bulk)
  /\ (Called(NameHSET) /\ Len(ReqArgs) = 3)
       => /\ SETs = pre.S
          /\ DOMAIN HSETs = DOMAIN pre.H \cup {ReqArgs[1].bulk}
          /\ \A g \in DOMAIN pre.H \ {ReqArgs[1].bulk} : HSETs[g] = pre.H[g]
          /\ OnlyEntryChanged(HSETs[ReqArgs[1].bulk], FieldsOf(pre.H, ReqArgs[1].bulk),
                              ReqArgs[2].bulk, ReqArgs[3].bulk)

\* main has run HSET h f v, which created the hash h, while the hash store
\* held another hash, which it still holds as it was
C24_Witness ==
  /\ Called(NameHSET)
  /\ Len(ReqArgs) = 3
  /\ ReqArgs[1].bulk \notin DOMAIN pre.H
  /\ DOMAIN pre.H # {}
  /\ DOMAIN HSETs = DOMAIN pre.H \cup {ReqArgs[1].bulk}
  /\ \A g \in DOMAIN pre.H : HSETs[g] = pre.H[g]

(***************************************************************************)
(* What a command that only reads leaves alone.                            *)
(***************************************************************************)
\* this step is main handling PING, GET, HGET or HGETALL
ReadOnlyStep ==
  /\ client = "idle"
  /\ client' = "got"
  /\ pc = "serve"
  /\ req'.typ = "array"
  /\ Len(req'.array) >= 1
  /\ ToUpper(req'.array[1].bulk) \in {NamePING, NameGET, NameHGET, NameHGETALL}

\* C27: the commands that only read have no effect on state: PING, GET, HGET
\* and HGETALL, whatever their arguments, leave the string store, the hash
\* store and the log as they were; HGET and HGETALL of a hash that is absent
\* make no entry for it.
C27_ReadOnlyCommandsChangeNothing ==
  [][ReadOnlyStep
       => /\ SETs' = SETs
          /\ HSETs' = HSETs
          /\ file' = file
          /\ off' = off
          /\ records' = records]_vars

\* main has answered HGET on a hash that is absent with Null, while the
\* store holds another hash and the log a record
C27_Witness ==
  /\ Called(NameHGET)
  /\ Len(ReqArgs) = 2
  /\ ReqArgs[1].bulk \notin DOMAIN HSETs
  /\ DOMAIN HSETs # {}
  /\ res = NullValue
  /\ Len(file) > 0

(***************************************************************************)
(* A client that sends its requests without waiting for the answers: one   *)
(* read of the connection may deliver one request or two.                  *)
(***************************************************************************)
\* the number of requests the client sends
MaxSend == 3

\* SET a a, SET a b, GET a, PING
PipeRequests ==
  {Command(NameSET, <<BulkValue(TokA), BulkValue(v)>>) : v \in Tokens}
    \cup {Command(NameGET, <<BulkValue(TokA)>>), Command(NamePING, <<>>)}

\* the client sends the requests of frames, which reach the server together
Send(frames) ==
  /\ Len(conn.sent) + Len(frames) <= MaxSend
  /\ conn' = [conn EXCEPT !.sent = @ \o frames,
                          !.chunks = Append(@, MarshalAll(frames))]

ClientSend ==
  /\ pc = "serve"
  /\ \E f \in PipeRequests :
       \/ Send(<<f>>)
       \/ \E g \in PipeRequests : Send(<<f, g>>)
  /\ UNCHANGED <<SETs, HSETs, file, off, pc, rd, out, client, req, res, pre,
                 appended, readRet, decErr, unsupported, tasks, locks, closed, mem>>
  /\ UNCHANGED hist

\* the request that Read returned reaches a handler
Dispatched(e) ==
  /\ e.err = ""
  /\ e.v.typ = "array"
  /\ Len(e.v.array) > 0
  /\ ToUpper(e.v.array[1].bulk) \in Handlers

\* main: one turn of the serving loop.  NewResp(conn) makes a new reader,
\* whose first read of the connection takes what has arrived; what Read
\* leaves in the reader's buffer goes with the reader at the end of the turn
ServeConn ==
  /\ pc = "serve"
  /\ client = "idle"
  /\ conn.chunks # <<>>
  /\ ServeValue(Read(Head(conn.chunks), NewReader))
  /\ conn' = [conn EXCEPT
                !.chunks = Tail(@),
                !.got = IF Dispatched(Read(Head(conn.chunks), NewReader))
                        THEN Append(@, Read(Head(conn.chunks), NewReader).v)
                        ELSE @]
  /\ UNCHANGED <<rd, replayed, shut, readRet, decErr, tasks, locks, mem>>
  /\ closed' = (pc' = "down")

NextPipe == ReplayStep \/ Accept \/ ClientSend \/ ServeConn \/ ClientRecv

SpecPipe == Init /\ [][NextPipe]_vars

\* C26: every complete request the client sends on the connection is
\* dispatched exactly once and in the order sent, however the bytes are
\* grouped into reads of the connection: the requests main has passed to
\* handlers are the first of those sent, in order, and once main has read
\* all that arrived they are all of them; so the second of two requests that
\* arrive in one read is executed too.
C26_EveryRequestDispatchedInOrder ==
  /\ IsPrefix(conn.got, conn.sent)
  /\ conn.chunks = <<>> => conn.got = conn.sent

(***************************************************************************)
(* Startup on a log whose last append was torn.                            *)
(***************************************************************************)
\* the first n records of CutLog are whole in the file f
WholeIn(n, f) == IsPrefix(MarshalAll(SubSeq(CutLog, 1, n)), f)

\* C28: when the log ends in the middle of a record, aof.Read calls the
\* callback for the whole records before the cut, in order, and for nothing
\* else: never with a Value made of the bytes of the partial record.
C28_TornAppendReplaysWholeRecordsOnly ==
  (IsPrefix(file, MarshalAll(CutLog)) /\ pc \in {"replay", "accept", "down"})
    => /\ IsPrefix(replayed, CutLog)
       /\ WholeIn(Len(replayed), file)
       /\ pc = "accept" => \A n \in 0..Len(CutLog) : WholeIn(n, file) => n <= Len(replayed)

(***************************************************************************)
(* Every lock at once: goroutines that call the six handlers that lock, a  *)
(* goroutine that calls aof.Write for SET a b, and the goroutine of NewAof.*)
(***************************************************************************)
CallerTasks == {4, 5}

\* SET a a, GET a, HSET a a b, HGET a a, HGETALL a, DEL a
LiveCalls ==
  {[cmd |-> NameSET, args |-> <<BulkValue(TokA), BulkValue(TokA)>>],
   [cmd |-> NameGET, args |-> <<BulkValue(TokA)>>],
   [cmd |-> NameHSET, args |-> <<BulkValue(TokA), BulkValue(TokA), BulkValue(TokB)>>],
   [cmd |-> NameHGET, args |-> <<BulkValue(TokA), BulkValue(TokA)>>],
   [cmd |-> NameHGETALL, args |-> <<BulkValue(TokA)>>],
   [cmd |-> NameDEL, args |-> <<BulkValue(TokA)>>]}

\* main has replayed an empty log and nobody is in a call
InitLive ==
  InitProcess({<<>>}, "serve",
              (SyncTask :> [IdleTask EXCEPT !.at = "sync.44"])
                @@ (WriterTask :> IdleTask)
                @@ [t \in CallerTasks |-> IdleTask],
              {FALSE})

CallLive(t) == Call(t, LiveCalls)

\* a step of the handler that goroutine t is in, its return included
HandlerSteps(t) ==
  \/ Return(t)
  \/ set_Lock(t) \/ set_Store(t) \/ set_Unlock(t)
  \/ get_RLock(t) \/ get_Load(t) \/ get_RUnlock(t)
  \/ hset_Lock(t) \/ hset_Store(t) \/ hset_Unlock(t)
  \/ hget_RLock(t) \/ hget_Load(t) \/ hget_RUnlock(t)
  \/ hgetall_RLock(t) \/ hgetall_Load(t) \/ hgetall_RUnlock(t)
  \/ hgetall_Range(t) \/ hgetall_Return(t)
  \/ del_LockSETs(t) \/ del_LockHSETs(t) \/ del_Loop(t)
  \/ del_UnlockHSETs(t) \/ del_UnlockSETs(t)

\* a step of aof.Write once it is called
WriteSteps(t) == write_Lock(t) \/ write_Write(t) \/ write_Unlock(t)

SyncSteps == sync_Lock \/ sync_Sync \/ sync_Unlock \/ sync_Sleep

NextLive ==
  \/ \E t \in CallerTasks : CallLive(t) \/ HandlerSteps(t)
  \/ write_Call(WriterTask, {CutLog[1]}) \/ WriteSteps(WriterTask)
  \/ SyncSteps
  \/ MapRaceFatal

\* the scheduler runs every goroutine that can run, and a goroutine that
\* waits for a lock gets it if the lock is free again and again: sync.Mutex
\* hands the lock to a waiter that has waited long, sync.RWMutex makes new
\* readers wait behind a waiting writer
FairLive ==
  /\ \A t \in CallerTasks : SF_vars(HandlerSteps(t))
  /\ SF_vars(WriteSteps(WriterTask))
  /\ SF_vars(SyncSteps)

SpecLive == InitLive /\ [][NextLive]_vars /\ FairLive

\* goroutine t waits for a lock that it cannot have now
Waiting(t) ==
  \/ tasks[t].at \in {"set.65", "del.207"} /\ ~CanLock(locks.SETsMu)
  \/ tasks[t].at \in {"hset.125", "del.208"} /\ ~CanLock(locks.HSETsMu)
  \/ tasks[t].at = "get.86" /\ ~CanRLock(locks.SETsMu)
  \/ tasks[t].at \in {"hget.152", "hgetall.178"} /\ ~CanRLock(locks.HSETsMu)
  \/ tasks[t].at \in {"write.66", "sync.44"} /\ locks.mu # 0

\* in no state does every goroutine wait for a lock
NoDeadlock == \E t \in DOMAIN tasks : ~Waiting(t)

\* goroutine t is inside a handler
InHandler(t) == tasks[t].caller = "client" /\ tasks[t].at # "done"

\* C25: the system never deadlocks: with concurrent callers of SET, GET,
\* HSET, HGET, HGETALL and DEL, a caller of aof.Write and the periodic sync,
\* there is no state in which every goroutine waits for a lock, and under
\* fair scheduling every handler call that has started returns.
C25_NoDeadlockCallsReturn ==
  /\ []NoDeadlock
  /\ \A t \in CallerTasks : InHandler(t) ~> ~InHandler(t)


(***************************************************************************)
(* Requests served by several goroutines, as a server with a goroutine for *)
(* each connection serves them: each runs lines 173-179 of main for its    *)
(* request, aof.Write(value), the handler and writer.Write(result).        *)
(***************************************************************************)
\* SET a a, SET a b
OrderRequests ==
  {Command(NameSET, <<BulkValue(TokA), BulkValue(v)>>) : v \in Tokens}

\* main has replayed an empty log and nobody is serving a request
InitOrder == InitProcess({<<>>}, "serve", [t \in CallerTasks |-> IdleTask], {FALSE})

\* goroutine t has read a SET request: it calls aof.Write(value)
serve_Write(t) ==
  /\ Running
  /\ tasks[t].at = "idle"
  /\ appended < MaxLog
  /\ \E value \in OrderRequests :
       /\ req' = value
       /\ tasks' = [tasks EXCEPT ![t] =
                      [IdleTask EXCEPT !.at = "write.66", !.caller = "serve",
                                       !.cmd = value.array[1].bulk,
                                       !.args = Tail(value.array)]]
  /\ UNCHANGED <<SETs, HSETs, file, off, pc, rd, out, client, res, pre, appended,
                 readRet, decErr, unsupported, locks, closed, conn, mem>>
  /\ UNCHANGED hist

\* the handler has returned to main: writer.Write(result), and the goroutine
\* is ready for its next request
serve_Reply(t) ==
  /\ Running
  /\ tasks[t].at = "done"
  /\ tasks[t].caller = "serve"
  /\ res' = tasks[t].ret
  /\ out' = out \o Marshal(tasks[t].ret)
  /\ tasks' = [tasks EXCEPT ![t] = IdleTask]
  /\ UNCHANGED <<SETs, HSETs, file, off, pc, rd, client, req, pre, appended,
                 readRet, decErr, unsupported, locks, closed, conn, mem>>
  /\ UNCHANGED hist

NextOrder ==
  \E t \in CallerTasks :
    \/ serve_Write(t) \/ write_Lock(t) \/ write_Write(t) \/ write_Unlock(t)
    \/ set_Lock(t) \/ set_Store(t) \/ set_Unlock(t) \/ serve_Reply(t)

SpecOrder == InitOrder /\ [][NextOrder]_vars

\* C5: the order of the records in the log is the order in which the writes
\* took effect: once the requests are served, of the logged writes to a key
\* or to a hash field the one latest in the log is the one whose value the
\* live store holds.
C5_LogOrderIsEffectOrder ==
  (pc \in {"accept", "serve"} /\ \A t \in DOMAIN tasks : tasks[t].at = "idle")
    => StoreHoldsLatestOf(LogOf(file))

====
